---- MODULE Spec2Model ----
(***************************************************************************)
(* Model of the archive-to-series extraction pipeline of bimcvcovid19i:    *)
(* the session extractor (sessions_iter), the series grouper               *)
(* (_group_series_files_by_name) and the series iterator (series_iter).    *)
(*                                                                         *)
(* A path is a sequence of tokens; "/" is the separator token and the      *)
(* markers "sub-" and "ses-" and the file suffixes are tokens of their     *)
(* own, so str.startswith, str.endswith and str.split("/") are prefix,     *)
(* suffix and split on the token sequence.                                 *)
(***************************************************************************)
EXTENDS Integers, Sequences, FiniteSets, TLC

\* ---------------------------------------------------------------- bounds
MaxParts == 2
MaxDirs == 3
MaxFiles == 2

\* ---------------------------------------------------------------- strings
StartsWith(s, p) == Len(p) <= Len(s) /\ SubSeq(s, 1, Len(p)) = p

EndsWith(s, e) == Len(e) <= Len(s) /\ SubSeq(s, Len(s) - Len(e) + 1, Len(s)) = e

\* str.split("/"): the list of segments of a path
RECURSIVE SplitFrom(_, _, _)
SplitFrom(s, j, cur) ==
    IF j > Len(s) THEN <<cur>>
    ELSE IF s[j] = "/" THEN <<cur>> \o SplitFrom(s, j + 1, <<>>)
    ELSE SplitFrom(s, j + 1, Append(cur, s[j]))

Split(s) == SplitFrom(s, 1, <<>>)

\* PurePath.relative_to succeeds only when root is a prefix of path segment by segment
IsRelativeTo(path, root) ==
    /\ StartsWith(path, root)
    /\ (Len(path) = Len(root) \/ path[Len(root) + 1] = "/")

RelativeTo(path, root) == SubSeq(path, Len(root) + 2, Len(path))

RECURSIVE SetToSeq(_)
SetToSeq(S) ==
    IF S = {} THEN <<>>
    ELSE LET x == CHOOSE y \in S : TRUE IN <<x>> \o SetToSeq(S \ {x})

Range(s) == {s[j] : j \in 1..Len(s)}

\* ---------------------------------------------------------------- archive members
A_E1 == <<"sub-", "A", "/", "ses-", "E", "1">>
A_E10 == <<"sub-", "A", "/", "ses-", "E", "1", "0">>
B_E1 == <<"sub-", "B", "/", "ses-", "E", "1">>

DirPaths == {A_E1, A_E10, B_E1}

FilePaths ==
    { A_E1 \o <<"/", "a", ".png">>,
      A_E1 \o <<"/", "b", ".json">>,
      A_E10 \o <<"/", "a", ".png">>,
      B_E1 }

Dir(p) == [name |-> p, type |-> "dir"]
File(p) == [name |-> p, type |-> "file"]

\* sequences of distinct directory members, at most MaxDirs long
DirSeqs ==
    UNION { { s \in [1..n -> DirPaths] : \A a, b \in 1..n : a # b => s[a] # s[b] }
            : n \in 0..MaxDirs }

FileSets == { S \in SUBSET FilePaths : Cardinality(S) <= MaxFiles }

MemberSeq(ds, fs) ==
    [j \in 1..Len(ds) |-> Dir(ds[j])] \o [j \in 1..Cardinality(fs) |-> File(SetToSeq(fs)[j])]

\* the archives a shard file can hold: unreadable, or a member list
Archives ==
    { [corrupt |-> TRUE, members |-> <<>>] }
    \cup { [corrupt |-> FALSE, members |-> MemberSeq(ds, fs)] : ds \in DirSeqs, fs \in FileSets }

\* ---------------------------------------------------------------- sessions_iter
VARIABLES
    variant,                \* "data": BIMCVCOVID19Data.sessions_iter, "download": BIMCVCOVID19.sessions_iter
    part_paths,             \* number of shard files matched by the glob, processed in sorted order
    part_index,             \* how many of them the for loop has taken
    part_file,              \* the archive opened last
    sessions_root_paths,    \* insertion-ordered dict session_id -> root path, as a sequence of items
    sessions_element_paths, \* for each item of sessions_root_paths, the file paths assigned to it
    session_index,          \* position of the loop over sessions_element_paths.items()
    temp_root,              \* directories under the temporary root, with the files written in each
    temp_exists,            \* the TemporaryDirectory has not been cleaned up
    pc,                     \* position of the generator
    exc,                    \* the exception handled or propagated last
    reported,               \* file members printed as not found in sessions_root_paths (current shard)
    part_yields,            \* subtrees yielded from the current shard, in order
    earlier_yields,         \* subtrees yielded from the shards before it
    caught_parts,           \* the handler has caught and printed the exception of an earlier shard
    closed_by_consumer      \* the consumer called close() on the suspended generator

extractor_vars ==
    <<variant, part_paths, part_index, part_file, sessions_root_paths, sessions_element_paths,
      session_index, temp_root, temp_exists, pc, exc, reported, part_yields, earlier_yields,
      caught_parts, closed_by_consumer>>

\* ---------------------------------------------------------------- series_iter
VARIABLES
    session_count,          \* number of session subtrees series_iter has taken from sessions_iter
    session_paths,          \* session_root.rglob("*") of the current subtree, in enumeration order
    groups,                 \* insertion-ordered dict group_name -> list of paths, as a sequence of items
    group_index,            \* position of the loop over groups.items()
    series_raw_path,        \* the SeriesRawPath the grouper yielded last
    emitted,                \* the SeriesRawPath of each group of the current subtree that got one
    series,                 \* the Series that series_iter is yielding (None when it is not at the yield)
    series_pc,              \* position of series_iter
    series_exc,             \* the exception read_item raised for series_raw_path, none if it returned
    item_contents           \* what read_item found in the files of series_raw_path, once it was called

series_vars ==
    <<session_count, session_paths, groups, group_index, series_raw_path, emitted, series,
      series_pc, series_exc, item_contents>>

\* ---------------------------------------------------------------- read_item on the data of one series
VARIABLES
    tool_pc,                \* position in read_item: "down_type", "tags_none", "load_tags", "spacing",
                            \* "returned", "raised"
    data,                   \* the decoded array, as the sequence of its elements (its shape is its length)
    image,                  \* tools.down_type(image): the elements and the element type
    tags_data,              \* deli.load(self.tags_path), None without tags_path
    tags,                   \* tools.parse_dicom_tags(tags_data)
    header,                 \* tools.spacing_from_nifty(self.image_path), None for .png and without image
    spacing,                \* the spacing of the Series
    tool_exc                \* the exception that ended read_item

tools_vars == <<tool_pc, data, image, tags_data, tags, header, spacing, tool_exc>>

\* ---------------------------------------------------------------- process_ct_image
VARIABLES
    ct_pc,                  \* "idle", "scan" (inside _clean_3dimage), "returned", "raised"
    series_id,              \* the identifier passed to process_ct_image
    transform_type,         \* the entry of the rotation table for series_id, "None" without one
    ct_input,               \* the image passed to process_ct_image
    clean_input,            \* the image passed to clean_ct_image
    ct_image,               \* the local `image` of _clean_3dimage
    ct_spacing,             \* the spacing process_ct_image returns
    edge,                   \* position of `for edge_idx, get_idx in edge_idxs` (1..6, 7 past the end)
    trims,                  \* the positions in edge_idxs at which the for loop broke, in order
    calls,                  \* calls of clean_ct_image so far
    ct_exc                  \* the exception that ended the call

ct_vars ==
    <<ct_pc, series_id, transform_type, ct_input, clean_input, ct_image, ct_spacing, edge, trims,
      calls, ct_exc>>

\* ---------------------------------------------------------------- tests
VARIABLES
    tests_pc,               \* "idle", "read" (the table is read), "returned"
    dataframe,              \* the rows of the test table, in the order of the file
    all_tests,              \* the list of Test objects
    tests_result            \* the dict tests() returns

tests_vars == <<tests_pc, dataframe, all_tests, tests_result>>

\* ---------------------------------------------------------------- webdav_download_file
VARIABLES
    wd_pc,                  \* "idle", "download", "except", "after", "returned", "raised"
    local_file,             \* the content of local_path, "absent" when it does not exist
    backup_file,            \* the content of backup_path (local_path + ".old"), or "absent"
    sha1sum,                \* the expected checksum, "None" without one
    exists,                 \* local_path.exists() at the call
    wd_entry,               \* local_file and backup_file as they were at the call
    wd_result,              \* the value returned
    wd_exc                  \* the exception that left the call

webdav_vars == <<wd_pc, local_file, backup_file, sha1sum, exists, wd_entry, wd_result, wd_exc>>

\* ---------------------------------------------------------------- prepare
VARIABLES
    prep_pc,                \* "idle", "series", "sessions", "subjects", "done", "raised"
    subjects_map,           \* subject uid -> the Subject (its series_ids and sessions_ids)
    sessions_map,           \* session uid -> the Session (its subject_id and series_ids)
    series_stream,          \* the Series that series_iter yields, in order
    prep_index,             \* position of the running for loop
    prepared_series,        \* the uids of the directories written under prepared_series
    prepared_sessions,      \* the sessions written under prepared_sessions, with their series_ids
    prepared_subjects,      \* the subjects written under prepared_subjects, with their ids
    prep_exc                \* the exception that ended prepare

prepare_vars ==
    <<prep_pc, subjects_map, sessions_map, series_stream, prep_index, prepared_series,
      prepared_sessions, prepared_subjects, prep_exc>>

post_vars == <<ct_vars, tests_vars, webdav_vars, prepare_vars>>

vars == <<extractor_vars, series_vars, tools_vars, post_vars>>

NoExc == [type |-> "none", site |-> "none"]

Raise(t, s) == [type |-> t, site |-> s]

\* faulty variant of IsException: the handler written as `except BaseException`
IsBaseException(type) == TRUE

\* classes derived from Exception; GeneratorExit derives from BaseException only
IsException(type) == type # "GeneratorExit"

\* the per-shard handler `except Exception` exists in data.py only
Catches(v, type) == v = "data" /\ IsException(type)

\* sessions_root_paths[session_id] = member_path on an insertion-ordered dict
DictSet(d, key, val) ==
    IF \E j \in 1..Len(d) : d[j].id = key
    THEN [j \in 1..Len(d) |-> IF d[j].id = key THEN [id |-> key, path |-> val] ELSE d[j]]
    ELSE Append(d, [id |-> key, path |-> val])

\* first pass over the members: the session roots
RECURSIVE DiscoverFrom(_, _, _)
DiscoverFrom(members, j, acc) ==
    IF j > Len(members) THEN [exc |-> NoExc, roots |-> acc]
    ELSE LET member == members[j]
             member_path_split == Split(member.name)
             len == Len(member_path_split)
         IN  IF ~StartsWith(member_path_split[len], <<"ses-">>)
             THEN DiscoverFrom(members, j + 1, acc)
             ELSE IF len < 2
             THEN [exc |-> Raise("IndexError", "discovery"), roots |-> acc]
             ELSE IF ~StartsWith(member_path_split[len - 1], <<"sub-">>)
             THEN DiscoverFrom(members, j + 1, acc)
             ELSE IF member.type # "dir"
             THEN [exc |-> Raise("AssertionError", "discovery"), roots |-> acc]
             ELSE DiscoverFrom(members, j + 1, DictSet(acc, member_path_split[len], member.name))

Discover(members) == DiscoverFrom(members, 1, <<>>)

\* the first item of sessions_root_paths whose path the member path starts with, 0 if none
FirstMatch(member_path, roots) ==
    IF \E j \in 1..Len(roots) : StartsWith(member_path, roots[j].path)
    THEN CHOOSE j \in 1..Len(roots) :
            /\ StartsWith(member_path, roots[j].path)
            /\ \A h \in 1..(j - 1) : ~StartsWith(member_path, roots[h].path)
    ELSE 0

RECURSIVE FilesMatching(_, _, _, _)
FilesMatching(members, j, roots, idx) ==
    IF j > Len(members) THEN <<>>
    ELSE IF members[j].type = "file" /\ FirstMatch(members[j].name, roots) = idx
         THEN <<members[j].name>> \o FilesMatching(members, j + 1, roots, idx)
         ELSE FilesMatching(members, j + 1, roots, idx)

\* second pass: distribution of the file members by session
Distribute(members, roots) == [idx \in 1..Len(roots) |-> FilesMatching(members, 1, roots, idx)]

NotFound(members, roots) == Range(FilesMatching(members, 1, roots, 0))

\* tarfile.open, getmembers and the two passes over the members
ReadPart(v, archive) ==
    IF archive.corrupt
    THEN [exc |-> Raise("ReadError", "open"), roots |-> <<>>, elements |-> <<>>, notfound |-> {}]
    ELSE LET d == Discover(archive.members) IN
         IF d.exc # NoExc
         THEN [exc |-> d.exc, roots |-> <<>>, elements |-> <<>>, notfound |-> {}]
         ELSE IF v = "download" /\ NotFound(archive.members, d.roots) # {}
         THEN [exc |-> Raise("AssertionError", "no_session_root"), roots |-> d.roots,
               elements |-> <<>>, notfound |-> {}]
         ELSE [exc |-> NoExc, roots |-> d.roots, elements |-> Distribute(archive.members, d.roots),
               notfound |-> NotFound(archive.members, d.roots)]

\* the files of one session written under session_root, up to the first relative_to that fails
RECURSIVE WriteFiles(_, _, _, _)
WriteFiles(paths, j, root, written) ==
    IF j > Len(paths) THEN [exc |-> NoExc, files |-> written]
    ELSE IF ~IsRelativeTo(paths[j], root)
         THEN [exc |-> Raise("ValueError", "relative_to"), files |-> written]
         ELSE WriteFiles(paths, j + 1, root, written \cup {RelativeTo(paths[j], root)})

DirNames(temp) == {d.name : d \in temp}

\* faulty variant of Materialize: session_root.mkdir(exist_ok=True) keeps what the directory holds
MaterializeExistOk(temp, session_id, root, paths) ==
    LET old == UNION {d.files : d \in {e \in temp : e.name = session_id}}
        w == WriteFiles(paths, 1, root, old)
    IN  [exc |-> w.exc,
         temp |-> {d \in temp : d.name # session_id} \cup {[name |-> session_id, files |-> w.files]},
         files |-> w.files]

\* session_root.mkdir() and the extraction of the session's files
Materialize(temp, session_id, root, paths) ==
    IF session_id \in DirNames(temp)
    THEN [exc |-> Raise("FileExistsError", "mkdir"), temp |-> temp, files |-> {}]
    ELSE LET w == WriteFiles(paths, 1, root, {}) IN
         [exc |-> w.exc, temp |-> temp \cup {[name |-> session_id, files |-> w.files]},
          files |-> w.files]

\* shutil.rmtree(session_root)
RmTree(temp, session_id) == {d \in temp : d.name # session_id}

\* an exception raised inside the for loop over part_paths, temp being the temporary root then
Handle(e, temp) ==
    /\ exc' = e
    /\ IF Catches(variant, e.type)
       THEN /\ pc' = "except"
            /\ temp_root' = temp
            /\ temp_exists' = temp_exists
       ELSE /\ pc' = IF e.type = "GeneratorExit" THEN "closed" ELSE "raised"
            /\ temp_root' = {}
            /\ temp_exists' = FALSE

TypeOK ==
    /\ variant \in {"data", "download"}
    /\ part_paths \in 0..MaxParts
    /\ part_index \in 0..part_paths
    /\ pc \in {"loop", "extract", "yield", "except", "done", "raised", "closed"}
    /\ temp_exists \in BOOLEAN
    /\ caught_parts \in BOOLEAN
    /\ closed_by_consumer \in BOOLEAN

\* None
NoPath == <<>>

NoSeriesRawPath == [uid |-> <<>>, image_path |-> NoPath, tags_path |-> NoPath]

NoSeries ==
    [uid |-> <<>>, image |-> "None", spacing |-> "None", tags |-> "None",
     subject_id |-> <<>>, session_id |-> <<>>, modality |-> <<>>]

\* ---------------------------------------------------------------- JSON values
\* A JSON value is a record of one shape: a string (numbers are written as strings), None,
\* a list of values, or an object with its keys in the order of the document.
JStr(s) == [kind |-> "str", str |-> s, items |-> <<>>, keys |-> <<>>]

JNone == [kind |-> "none", str |-> "", items |-> <<>>, keys |-> <<>>]

JList(l) == [kind |-> "list", str |-> "", items |-> l, keys |-> <<>>]

JDict(k, v) == [kind |-> "dict", str |-> "", items |-> v, keys |-> k]

\* an exception in the place of a value
JError(type) == [kind |-> "error", str |-> type, items |-> <<>>, keys |-> <<>>]

\* the spacing of a NIfTI header
Zooms == [kind |-> "zooms", str |-> "", items |-> <<>>, keys |-> <<>>]

\* no array
NoImage == [data |-> <<>>, dtype |-> "none"]

\* read_item before line 198
ToolsIdle ==
    /\ tool_pc = "down_type"
    /\ data = <<>>
    /\ image = NoImage
    /\ tags_data = JNone
    /\ tags = JNone
    /\ header = JNone
    /\ spacing = JNone
    /\ tool_exc = NoExc

\* no file was opened
NoContents == [img |-> "none", err |-> "none", hdr |-> "none", tg |-> "none"]

\* series_iter before its first step
SeriesIdle ==
    /\ session_count = 0
    /\ session_paths = <<>>
    /\ groups = <<>>
    /\ group_index = 0
    /\ series_raw_path = NoSeriesRawPath
    /\ emitted = <<>>
    /\ series = NoSeries
    /\ series_pc = "sessions"
    /\ series_exc = NoExc
    /\ item_contents = NoContents

\* ---------------------------------------------------------------- 3-D arrays
\* An array is its shape and its elements, indexed from 1 (numpy index i is position i + 1).
Index(shape) ==
    IF Len(shape) = 3
    THEN {<<i, j, k>> : i \in 1..shape[1], j \in 1..shape[2], k \in 1..shape[3]}
    ELSE {<<i, j>> : i \in 1..shape[1], j \in 1..shape[2]}

\* the array of a shape whose elements are all 0
Zeros(shape) == [shape |-> shape, vox |-> [p \in Index(shape) |-> 0]]

NoArray == Zeros(<<0, 0, 0>>)

\* the spacing of the input image, one distinct value per axis
InputSpacing == <<1, 2, 3>>

\* process_ct_image was not called
CtIdle ==
    /\ ct_pc = "idle"
    /\ series_id = <<>>
    /\ transform_type = "None"
    /\ ct_input = NoArray
    /\ clean_input = NoArray
    /\ ct_image = NoArray
    /\ ct_spacing = InputSpacing
    /\ edge = 1
    /\ trims = <<>>
    /\ calls = 0
    /\ ct_exc = NoExc

\* tests() was not called
TestsIdle ==
    /\ tests_pc = "idle"
    /\ dataframe = <<>>
    /\ all_tests = <<>>
    /\ tests_result = <<>>

\* webdav_download_file was not called
WebdavIdle ==
    /\ wd_pc = "idle"
    /\ local_file = "absent"
    /\ backup_file = "absent"
    /\ sha1sum = "None"
    /\ exists = FALSE
    /\ wd_entry = [local_file |-> "absent", backup_file |-> "absent"]
    /\ wd_result = "none"
    /\ wd_exc = NoExc

\* prepare was not called
PrepareIdle ==
    /\ prep_pc = "idle"
    /\ subjects_map = <<>>
    /\ sessions_map = <<>>
    /\ series_stream = <<>>
    /\ prep_index = 0
    /\ prepared_series = {}
    /\ prepared_sessions = {}
    /\ prepared_subjects = {}
    /\ prep_exc = NoExc

PostIdle == CtIdle /\ TestsIdle /\ WebdavIdle /\ PrepareIdle

Init ==
    /\ SeriesIdle
    /\ ToolsIdle
    /\ PostIdle
    /\ variant \in {"data", "download"}
    /\ part_paths \in 0..MaxParts
    /\ part_index = 0
    /\ part_file = [corrupt |-> FALSE, members |-> <<>>]
    /\ sessions_root_paths = <<>>
    /\ sessions_element_paths = <<>>
    /\ session_index = 0
    /\ temp_root = {}
    /\ temp_exists = TRUE
    /\ pc = "loop"
    /\ exc = NoExc
    /\ reported = {}
    /\ part_yields = <<>>
    /\ earlier_yields = {}
    /\ caught_parts = FALSE
    /\ closed_by_consumer = FALSE

\* the next iteration of `for part_path in part_paths`, up to the loop over the sessions
OpenPart ==
    /\ UNCHANGED <<series_vars, tools_vars, post_vars>>
    /\ pc = "loop"
    /\ part_index < part_paths
    /\ \E archive \in Archives :
        LET r == ReadPart(variant, archive) IN
        /\ part_file' = archive
        /\ part_index' = part_index + 1
        /\ part_yields' = <<>>
        /\ sessions_root_paths' = r.roots
        /\ sessions_element_paths' = r.elements
        /\ reported' = r.notfound
        /\ session_index' = 1
        /\ IF r.exc = NoExc
           THEN /\ pc' = "extract"
                /\ UNCHANGED <<exc, temp_root, temp_exists>>
           ELSE Handle(r.exc, temp_root)
    /\ UNCHANGED <<variant, part_paths, earlier_yields, caught_parts, closed_by_consumer>>

\* one iteration of the loop over the sessions, up to `yield session_root`
Extract ==
    /\ UNCHANGED <<series_vars, tools_vars, post_vars>>
    /\ pc = "extract"
    /\ session_index <= Len(sessions_root_paths)
    /\ LET item == sessions_root_paths[session_index]
           m == Materialize(temp_root, item.id, item.path, sessions_element_paths[session_index])
       IN  IF m.exc = NoExc
           THEN /\ pc' = "yield"
                /\ temp_root' = m.temp
                /\ part_yields' = Append(part_yields,
                        [id |-> item.id, root |-> item.path, files |-> m.files])
                /\ UNCHANGED <<exc, temp_exists>>
           ELSE /\ Handle(m.exc, m.temp)
                /\ UNCHANGED part_yields
    /\ UNCHANGED <<variant, part_paths, part_index, part_file, sessions_root_paths,
                   sessions_element_paths, session_index, reported, earlier_yields,
                   caught_parts, closed_by_consumer>>

\* the consumer asks for the next item: the generator resumes after the yield
Resume ==
    /\ UNCHANGED <<series_vars, tools_vars, post_vars>>
    /\ pc = "yield"
    /\ temp_root' = RmTree(temp_root, sessions_root_paths[session_index].id)
    /\ session_index' = session_index + 1
    /\ pc' = "extract"
    /\ UNCHANGED <<variant, part_paths, part_index, part_file, sessions_root_paths,
                   sessions_element_paths, temp_exists, exc, reported, part_yields,
                   earlier_yields, caught_parts, closed_by_consumer>>

\* The names bound by an iteration of the loop over part_paths are bound again by the next
\* iteration before they are read: the end of an iteration leaves them as Init has them.
IterationEnds ==
    /\ pc' = "loop"
    /\ part_file' = [corrupt |-> FALSE, members |-> <<>>]
    /\ sessions_root_paths' = <<>>
    /\ sessions_element_paths' = <<>>
    /\ session_index' = 0
    /\ reported' = {}
    /\ part_yields' = <<>>
    /\ earlier_yields' = earlier_yields \cup Range(part_yields)
    /\ UNCHANGED <<variant, part_paths, part_index, temp_root, temp_exists, exc,
                   closed_by_consumer>>

\* the loop over the sessions of the shard is exhausted; the archive is closed
EndPart ==
    /\ UNCHANGED <<series_vars, tools_vars, post_vars>>
    /\ pc = "extract"
    /\ session_index > Len(sessions_root_paths)
    /\ IterationEnds
    /\ UNCHANGED caught_parts

\* `except Exception as exc: print(...)`, then the next shard
Except ==
    /\ UNCHANGED <<series_vars, tools_vars, post_vars>>
    /\ pc = "except"
    /\ IterationEnds
    /\ caught_parts' = TRUE

\* the loop over part_paths is exhausted: TemporaryDirectory.__exit__, StopIteration
Finish ==
    /\ UNCHANGED <<series_vars, tools_vars, post_vars>>
    /\ pc = "loop"
    /\ part_index = part_paths
    /\ pc' = "done"
    /\ temp_root' = {}
    /\ temp_exists' = FALSE
    /\ UNCHANGED <<variant, part_paths, part_index, part_file, sessions_root_paths,
                   sessions_element_paths, session_index, exc, reported, part_yields,
                   earlier_yields, caught_parts, closed_by_consumer>>

\* the consumer abandons the generator at a yield: close() throws GeneratorExit there
Close ==
    /\ UNCHANGED <<series_vars, tools_vars, post_vars>>
    /\ pc = "yield"
    /\ closed_by_consumer' = TRUE
    /\ Handle(Raise("GeneratorExit", "yield"), temp_root)
    /\ UNCHANGED <<variant, part_paths, part_index, part_file, sessions_root_paths,
                   sessions_element_paths, session_index, reported, part_yields, earlier_yields,
                   caught_parts>>

Next == OpenPart \/ Extract \/ Resume \/ EndPart \/ Except \/ Finish \/ Close

Spec == Init /\ [][Next]_vars

\* ---------------------------------------------------------------- properties of sessions_iter
FileNames(archive) == {archive.members[j].name : j \in {h \in 1..Len(archive.members) : archive.members[h].type = "file"}}

\* the directory members that the first pass takes for session roots
SessionRootMembers(archive) ==
    {archive.members[j].name : j \in {h \in 1..Len(archive.members) :
        LET seg == Split(archive.members[h].name) IN
        /\ archive.members[h].type = "dir"
        /\ Len(seg) >= 2
        /\ StartsWith(seg[Len(seg)], <<"ses-">>)
        /\ StartsWith(seg[Len(seg) - 1], <<"sub-">>)}}

MemberIndex(archive, path) == CHOOSE j \in 1..Len(archive.members) : archive.members[j].name = path

\* the iteration over the current shard is over, normally or by an exception
PartDone ==
    \/ pc \in {"except", "raised"}
    \/ pc = "extract" /\ session_index > Len(sessions_root_paths)

\* what the files on disk under the temporary root hold for the directory called name
SubtreeFiles(name) == UNION {d.files : d \in {e \in temp_root : e.name = name}}

\* the subtrees a shard yields when it is the only shard: the temporary root is empty whenever
\* a session of it is materialized
RECURSIVE AloneFrom(_, _, _)
AloneFrom(roots, elements, j) ==
    IF j > Len(roots) THEN <<>>
    ELSE LET w == WriteFiles(elements[j], 1, roots[j].path, {}) IN
         IF w.exc # NoExc THEN <<>>
         ELSE <<[id |-> roots[j].id, root |-> roots[j].path, files |-> w.files]>>
              \o AloneFrom(roots, elements, j + 1)

YieldsAlone(v, archive) ==
    LET r == ReadPart(v, archive) IN
    IF r.exc # NoExc THEN <<>> ELSE AloneFrom(r.roots, r.elements, 1)

\* C1 (as stated): a session that has files under the same root in two shards is yielded as one subtree only:
\* no subtree of the current shard has the session root of a subtree yielded from an earlier shard.
C1_OneSubtreePerSession ==
    \A y \in Range(part_yields) : \A e \in earlier_yields :
        (y.files # {} /\ e.files # {}) => y.root # e.root

\* C1 (amended): every yielded subtree is made from the shard being processed alone: the
\* directory on disk holds exactly the files that this shard assigns to the session, at their
\* paths relative to the session root, and the j-th session of the shard is its j-th subtree;
\* so a session spread over two shards is materialized once per shard and never merged.
C1_SubtreePerShard ==
    pc = "yield" =>
        LET item == sessions_root_paths[session_index] IN
        /\ Len(part_yields) = session_index
        /\ part_yields[session_index].root = item.path
        /\ item.id \in DirNames(temp_root)
        /\ SubtreeFiles(item.id) =
              { RelativeTo(f, item.path) :
                  f \in { g \in FileNames(part_file) :
                            FirstMatch(g, sessions_root_paths) = session_index } }

\* C1 witness: a session root is yielded from the second shard after it was yielded from the
\* first one with other files
C1_Witness ==
    /\ pc = "yield"
    /\ \E e \in earlier_yields :
          /\ e.root = sessions_root_paths[session_index].path
          /\ e.files # {}
          /\ SubtreeFiles(sessions_root_paths[session_index].id) # {}
          /\ e.files # SubtreeFiles(sessions_root_paths[session_index].id)

\* C2: the temporary root holds the directory of at most one session at any time.
C2_AtMostOneSession == Cardinality(temp_root) <= 1

\* C3: once the consumer has closed the suspended generator, the generator has exited without
\* resuming extraction and the temporary root with the yielded subtree is deleted.
C3_CloseDeletes ==
    closed_by_consumer => pc = "closed" /\ temp_root = {} /\ ~temp_exists

\* C3 witness: the generator was closed at a yield while a materialized subtree was on disk
C3_Witness ==
    /\ closed_by_consumer
    /\ exc = Raise("GeneratorExit", "yield")
    /\ part_yields # <<>>
    /\ part_yields[Len(part_yields)].files # {}

\* C4: when the iteration over a shard whose members were listed and whose session roots were
\* discovered is over, every file member that lies under a session root of the shard was written, at its path relative to that root, into the subtree yielded
\* for that root, and into one subtree only.
C4_EveryFileInItsSession ==
    (variant = "data" /\ PartDone /\ ReadPart(variant, part_file).exc = NoExc) =>
        \A f \in FileNames(part_file) : \A r \in SessionRootMembers(part_file) :
            IsRelativeTo(f, r) =>
                /\ \E j \in 1..Len(part_yields) :
                      part_yields[j].root = r /\ RelativeTo(f, r) \in part_yields[j].files
                /\ \A j, h \in 1..Len(part_yields) :
                      (\E q \in SessionRootMembers(part_file) :
                          /\ IsRelativeTo(f, q)
                          /\ RelativeTo(f, q) \in part_yields[j].files
                          /\ RelativeTo(f, q) \in part_yields[h].files) => j = h

\* C5: within a shard the subtrees are yielded in the order in which their session roots occur
\* among the members of the archive.
C5_DiscoveryOrder ==
    \A j, h \in 1..Len(part_yields) :
        j < h => MemberIndex(part_file, part_yields[j].root) < MemberIndex(part_file, part_yields[h].root)

\* C6: a file member under no session root of its shard is dropped without being fatal: no
\* exception reaches the consumer because of it, it is in no yielded subtree, and the shard
\* still yields a subtree for each of its sessions.
C6_NotFoundNotFatal ==
    /\ ~(pc = "raised" /\ exc = Raise("AssertionError", "no_session_root"))
    /\ (pc = "extract" /\ session_index > Len(sessions_root_paths) /\ reported # {}) =>
          /\ Len(part_yields) = Len(sessions_root_paths)
          /\ \A f \in reported : \A j \in 1..Len(part_yields) :
                ~IsRelativeTo(f, part_yields[j].root)

\* C7: after the exception of an earlier shard was caught, a shard yields exactly the subtrees
\* it yields when the failing shard is not in the list.
C7_LaterShardsUnaffected ==
    (caught_parts /\ variant = "data" /\ PartDone) => part_yields = YieldsAlone(variant, part_file)

\* ---------------------------------------------------------------- session subtrees
MaxSessions == 2
MaxEntries == 4

S01_E01 == <<"sub-", "S01", "_", "ses-", "E01">>

\* the entries a session subtree is drawn from, in a fixed order
SubtreeEntries ==
    << [path |-> S01_E01 \o <<"_", "ct", ".nii.gz">>, is_dir |-> FALSE],
       [path |-> S01_E01 \o <<"_", "ct", ".json">>, is_dir |-> FALSE],
       [path |-> S01_E01 \o <<"_", "ct", ".png">>, is_dir |-> FALSE],
       [path |-> S01_E01 \o <<"_", "scans", ".tsv">>, is_dir |-> FALSE],
       [path |-> <<"mod">>, is_dir |-> TRUE],
       [path |-> <<"mod", "/">> \o S01_E01 \o <<"_", "scans", ".tsv">>, is_dir |-> FALSE],
       [path |-> <<"ses-", "E01", "_", "cr", ".png">>, is_dir |-> FALSE],
       [path |-> S01_E01 \o <<"_", "cr", ".json">>, is_dir |-> FALSE],
       [path |-> <<"mod", "/">> \o S01_E01 \o <<"_", "cr", ".json">>, is_dir |-> FALSE],
       [path |-> S01_E01 \o <<"_", "ct", ".txt">>, is_dir |-> FALSE],
       [path |-> <<"sub-", "S01", "_", "cr", ".png">>, is_dir |-> FALSE],
       [path |-> S01_E01 \o <<"_", "run-1", "_", "ct", ".png">>, is_dir |-> FALSE] >>

RECURSIVE Pick(_, _)
Pick(idx, j) ==
    IF j > Len(SubtreeEntries) THEN <<>>
    ELSE IF j \in idx THEN <<SubtreeEntries[j]>> \o Pick(idx, j + 1)
    ELSE Pick(idx, j + 1)

Reverse(s) == [j \in 1..Len(s) |-> s[Len(s) + 1 - j]]

\* the listings rglob can return: at most MaxEntries entries, in the fixed order or its reverse
Listings ==
    UNION { {Pick(idx, 1), Reverse(Pick(idx, 1))} :
            idx \in {x \in SUBSET (1..Len(SubtreeEntries)) : Cardinality(x) <= MaxEntries} }

\* ---------------------------------------------------------------- _group_series_files_by_name
extensions == <<".json", ".tsv", ".nii.gz", ".png">>

\* the first of the extensions the path ends with, 0 if none
ExtensionOf(str_path) ==
    IF \E j \in 1..Len(extensions) : EndsWith(str_path, <<extensions[j]>>)
    THEN CHOOSE j \in 1..Len(extensions) :
            /\ EndsWith(str_path, <<extensions[j]>>)
            /\ \A h \in 1..(j - 1) : ~EndsWith(str_path, <<extensions[h]>>)
    ELSE 0

\* groups[group_name].append(path) on an insertion-ordered defaultdict(list)
GroupAppend(d, group_name, path) ==
    IF \E j \in 1..Len(d) : d[j].name = group_name
    THEN [j \in 1..Len(d) |->
            IF d[j].name = group_name THEN [name |-> group_name, group |-> Append(d[j].group, path)]
            ELSE d[j]]
    ELSE Append(d, [name |-> group_name, group |-> <<path>>])

\* faulty variant of GroupFrom: without the assert a file of no known extension joins no group
RECURSIVE GroupFromSkipUnknown(_, _, _)
GroupFromSkipUnknown(paths, j, acc) ==
    IF j > Len(paths) THEN [exc |-> NoExc, groups |-> acc]
    ELSE IF paths[j].is_dir THEN GroupFromSkipUnknown(paths, j + 1, acc)
    ELSE LET str_path == paths[j].path IN
         IF ExtensionOf(str_path) = 0
         THEN GroupFromSkipUnknown(paths, j + 1, acc)
         ELSE GroupFromSkipUnknown(paths, j + 1,
                        GroupAppend(acc, SubSeq(str_path, 1, Len(str_path) - 1), str_path))

\* the loop over paths: directories are skipped, a file of no known extension fails the assert
RECURSIVE GroupFrom(_, _, _)
GroupFrom(paths, j, acc) ==
    IF j > Len(paths) THEN [exc |-> NoExc, groups |-> acc]
    ELSE IF paths[j].is_dir THEN GroupFrom(paths, j + 1, acc)
    ELSE LET str_path == paths[j].path IN
         IF ExtensionOf(str_path) = 0
         THEN [exc |-> Raise("AssertionError", "extension"), groups |-> acc]
         ELSE GroupFrom(paths, j + 1,
                        GroupAppend(acc, SubSeq(str_path, 1, Len(str_path) - 1), str_path))

\* Path.name: the last segment
Name(path) == LET seg == Split(path) IN seg[Len(seg)]

Contains(s, sub) == \E j \in 0..(Len(s) - Len(sub)) : SubSeq(s, j + 1, j + Len(sub)) = sub

\* faulty variant of IsScansFile: the test that the file lies directly under session_root is left out
IsScansFileAnywhere(path) ==
    /\ EndsWith(path, <<"_", "scans", ".tsv">>)
    /\ Contains(Name(path), <<"sub-">>)
    /\ Contains(Name(path), <<"_", "ses-">>)

\* the three checks on a group of one file; path is relative to session_root
IsScansFile(path) ==
    /\ EndsWith(path, <<"_", "scans", ".tsv">>)
    /\ path = Name(path)
    /\ Contains(Name(path), <<"sub-">>)
    /\ Contains(Name(path), <<"_", "ses-">>)

\* the last path of the group that does not end in .json, None if there is none
RECURSIVE ImageOf(_, _, _)
ImageOf(group, j, image_path) ==
    IF j > Len(group) THEN image_path
    ELSE IF EndsWith(group[j], <<".json">>) THEN ImageOf(group, j + 1, image_path)
    ELSE ImageOf(group, j + 1, group[j])

\* the last path of the group that ends in .json, None if there is none
RECURSIVE MetaOf(_, _, _)
MetaOf(group, j, meta_path) ==
    IF j > Len(group) THEN meta_path
    ELSE IF EndsWith(group[j], <<".json">>) THEN MetaOf(group, j + 1, group[j])
    ELSE MetaOf(group, j + 1, meta_path)

\* faulty variant of GroupItem: the size test written as len(group) > 3
GroupItemUpToThree(item) ==
    IF Len(item.group) = 1 /\ IsScansFile(item.group[1])
    THEN [skip |-> TRUE, raw |-> NoSeriesRawPath]
    ELSE IF Len(item.group) > 3
    THEN [skip |-> TRUE, raw |-> NoSeriesRawPath]
    ELSE [skip |-> FALSE,
          raw |-> [uid |-> Name(item.name),
                   image_path |-> ImageOf(item.group, 1, NoPath),
                   tags_path |-> MetaOf(item.group, 1, NoPath)]]

\* what the loop over groups.items() does with one item: skip it or yield a SeriesRawPath
GroupItem(item) ==
    IF Len(item.group) = 1 /\ IsScansFile(item.group[1])
    THEN [skip |-> TRUE, raw |-> NoSeriesRawPath]
    ELSE IF Len(item.group) > 2
    THEN [skip |-> TRUE, raw |-> NoSeriesRawPath]
    ELSE [skip |-> FALSE,
          raw |-> [uid |-> Name(item.name),
                   image_path |-> ImageOf(item.group, 1, NoPath),
                   tags_path |-> MetaOf(item.group, 1, NoPath)]]

\* ---------------------------------------------------------------- SeriesRawPath.read_item
\* What a file holds is learnt when read_item reads it.
\*   image file: "ok", "rgb" (decodes to an array of (R, G, B) records), "empty" (zero bytes),
\*               "undecodable" (not empty, the decoder fails)
ImageContents == {"ok", "rgb", "empty", "undecodable"}

\* the class of the error nibabel raises when it fails; SimpleITK raises RuntimeError
DecoderErrors == {"RuntimeError", "ImageFileError"}

\* the NIfTI header gives the zooms, or spacing_from_nifty suppresses an exception
HeaderContents == {"zooms", "None"}

\*   tags file: "not_dict" (the JSON document is no object), "vr_only" ({"vr": t}),
\*              "scalar" (collapses to a value that is no mapping), "plain" (a mapping without
\*              PixelSpacing or without Modality), "cr" (PixelSpacing, Modality CR or DX),
\*              "ct" (PixelSpacing and another Modality)
TagsContents == {"not_dict", "vr_only", "scalar", "plain", "cr", "ct"}

\* What read_item can find in the files of one SeriesRawPath; "none" stands for what it does
\* not get to read. nibabel's error class is met when a .nii.gz file fails to decode, the
\* header when it decodes, the tags file when there is one and the image got through down_type.
FileContents(raw) ==
    LET nifti == raw.image_path # NoPath /\ raw.image_path[Len(raw.image_path)] = ".nii.gz"
    IN  { c \in [img : IF raw.image_path = NoPath THEN {"none"} ELSE ImageContents,
                  err : DecoderErrors \cup {"none"},
                  hdr : HeaderContents \cup {"none"},
                  tg : TagsContents \cup {"none"}] :
            /\ c.err # "none" <=> (nifti /\ c.img \in {"empty", "undecodable"})
            /\ c.hdr # "none" <=> (nifti /\ c.img \in {"ok", "rgb"})
            /\ c.tg # "none" <=>
                  /\ raw.tags_path # NoPath
                  /\ c.img \in {"none", "ok"}
                  /\ raw.image_path # NoPath =>
                        raw.image_path[Len(raw.image_path)] \in {".png", ".nii.gz"} }

\* `except RuntimeError`: NotImplementedError and EmptyFileError derive from RuntimeError
IsRuntimeError(type) == type \in {"RuntimeError", "NotImplementedError", "EmptyFileError"}

\* the handler around the decoding: a zero-byte file turns the error into EmptyFileError
DecodeHandler(e, img) ==
    IF ~IsRuntimeError(e.type) THEN e
    ELSE IF img = "empty" THEN Raise("EmptyFileError", "empty")
    ELSE e

\* the try block that decodes image_path
Decode(image_path, img, err, hdr) ==
    IF EndsWith(image_path, <<".png">>)
    THEN IF img \in {"empty", "undecodable"}
         THEN [exc |-> DecodeHandler(Raise("RuntimeError", "decode"), img), spacing |-> "None"]
         ELSE [exc |-> NoExc, spacing |-> "None"]
    ELSE IF EndsWith(image_path, <<".nii.gz">>)
    THEN IF img \in {"empty", "undecodable"}
         THEN [exc |-> DecodeHandler(Raise(err, "decode"), img), spacing |-> "None"]
         ELSE [exc |-> NoExc, spacing |-> hdr]
    ELSE [exc |-> DecodeHandler(Raise("NotImplementedError", "format"), img), spacing |-> "None"]

\* tools.down_type on the decoded array: numpy cannot cast an array of (R, G, B) records
DownTypeExc(img) == IF img = "rgb" THEN Raise("TypeError", "rgb_cast") ELSE NoExc

\* deli.load, the two asserts and tools.parse_dicom_tags
ReadTags(tg) ==
    IF tg = "not_dict" THEN [exc |-> Raise("AssertionError", "tags_data"), tags |-> "None"]
    ELSE IF tg = "scalar" THEN [exc |-> Raise("AssertionError", "tags"), tags |-> "None"]
    ELSE IF tg = "vr_only" THEN [exc |-> NoExc, tags |-> "None"]
    ELSE [exc |-> NoExc, tags |-> tg]

\* tools.spacing_from_tags
SpacingFromTags(tg) ==
    IF tg = "None" THEN [exc |-> NoExc, spacing |-> "None"]
    ELSE IF tg = "plain" THEN [exc |-> NoExc, spacing |-> "None"]
    ELSE IF tg = "cr" THEN [exc |-> NoExc, spacing |-> "PixelSpacing"]
    ELSE [exc |-> Raise("NotImplementedError", "spacing"), spacing |-> "None"]

\* uid.split("_")
RECURSIVE SplitUnderscore(_, _, _)
SplitUnderscore(s, j, cur) ==
    IF j > Len(s) THEN <<cur>>
    ELSE IF s[j] = "_" THEN <<cur>> \o SplitUnderscore(s, j + 1, <<>>)
    ELSE SplitUnderscore(s, j + 1, Append(cur, s[j]))

\* the loop over the name elements of the uid; <<>> is None
RECURSIVE ScanIds(_, _, _, _)
ScanIds(elements, j, subject_id, session_id) ==
    IF j > Len(elements) THEN [subject_id |-> subject_id, session_id |-> session_id]
    ELSE LET sub == IF StartsWith(elements[j], <<"sub-">>) THEN elements[j] ELSE subject_id
             ses == IF ~StartsWith(elements[j], <<"sub-">>) /\ StartsWith(elements[j], <<"ses-">>)
                    THEN elements[j] ELSE session_id
         IN  IF sub # <<>> /\ ses # <<>>
             THEN [subject_id |-> sub, session_id |-> ses]
             ELSE ScanIds(elements, j + 1, sub, ses)

\* faulty variant of UpperToken: the modality taken from the uid without .upper()
UpperTokenAsIs(t) == t

\* str.upper on the tokens that occur as the last element of a uid
UpperToken(t) ==
    CASE t = "ct" -> "CT"
      [] t = "cr" -> "CR"
      [] t = "scans" -> "SCANS"
      [] OTHER -> t

Upper(s) == [j \in 1..Len(s) |-> UpperToken(s[j])]

ReadItem(raw, img, err, hdr, tg) ==
    LET d == IF raw.image_path = NoPath THEN [exc |-> NoExc, spacing |-> "None"]
             ELSE Decode(raw.image_path, img, err, hdr)
        dt == IF raw.image_path = NoPath THEN NoExc ELSE DownTypeExc(img)
        t == IF raw.tags_path = NoPath THEN [exc |-> NoExc, tags |-> "None"] ELSE ReadTags(tg)
        sp == IF d.spacing # "None" THEN [exc |-> NoExc, spacing |-> d.spacing]
              ELSE SpacingFromTags(t.tags)
        elements == SplitUnderscore(raw.uid, 1, <<>>)
        ids == ScanIds(elements, 1, <<>>, <<>>)
    IN  IF d.exc # NoExc THEN [exc |-> d.exc, series |-> NoSeries]
        ELSE IF dt # NoExc THEN [exc |-> dt, series |-> NoSeries]
        ELSE IF t.exc # NoExc THEN [exc |-> t.exc, series |-> NoSeries]
        ELSE IF sp.exc # NoExc THEN [exc |-> sp.exc, series |-> NoSeries]
        ELSE IF ids.subject_id = <<>>
        THEN [exc |-> Raise("AssertionError", "subject_id"), series |-> NoSeries]
        ELSE IF ids.session_id = <<>>
        THEN [exc |-> Raise("AssertionError", "session_id"), series |-> NoSeries]
        ELSE [exc |-> NoExc,
              series |-> [uid |-> raw.uid,
                          image |-> IF raw.image_path = NoPath THEN "None" ELSE "array",
                          spacing |-> sp.spacing,
                          tags |-> t.tags,
                          subject_id |-> ids.subject_id,
                          session_id |-> ids.session_id,
                          modality |-> Upper(elements[Len(elements)])]]

\* the two handlers of series_iter: the TypeError of the (R, G, B) cast and EmptyFileError
Skips(e) ==
    \/ e.type = "TypeError" /\ e.site = "rgb_cast"
    \/ e.type = "EmptyFileError"

\* ---------------------------------------------------------------- series_iter, step by step
\* `for session_root in session_dirs`: the next subtree, listed and grouped by the grouper
NextSession ==
    /\ series_pc = "sessions"
    /\ session_count < MaxSessions
    /\ \E listing \in Listings :
        LET g == GroupFrom(listing, 1, <<>>) IN
        /\ session_paths' = listing
        /\ session_count' = session_count + 1
        /\ emitted' = <<>>
        /\ IF g.exc = NoExc
           THEN /\ groups' = g.groups
                /\ group_index' = 1
                /\ series_pc' = "groups"
                /\ UNCHANGED series_exc
           ELSE /\ groups' = <<>>
                /\ group_index' = 0
                /\ series_pc' = "raised"
                /\ series_exc' = g.exc
    /\ UNCHANGED <<series_raw_path, series, item_contents>>
    /\ UNCHANGED <<extractor_vars, tools_vars, post_vars>>

\* one item of groups.items(): skipped, or a SeriesRawPath is handed to series_iter
NextGroup ==
    /\ series_pc = "groups"
    /\ group_index <= Len(groups)
    /\ LET r == GroupItem(groups[group_index]) IN
       IF r.skip
       THEN /\ group_index' = group_index + 1
            /\ UNCHANGED <<series_raw_path, emitted, series_pc, series_exc, item_contents>>
       ELSE /\ series_raw_path' = r.raw
            /\ emitted' = Append(emitted, [group |-> group_index, raw |-> r.raw])
            /\ series_pc' = "read"
            /\ series_exc' = NoExc
            /\ item_contents' = NoContents
            /\ UNCHANGED group_index
    /\ UNCHANGED <<session_count, session_paths, groups, series>>
    /\ UNCHANGED <<extractor_vars, tools_vars, post_vars>>

\* `yield series_raw_path.read_item()` inside the try of series_iter
ReadSeries ==
    /\ series_pc = "read"
    /\ \E c \in FileContents(series_raw_path) :
        LET r == ReadItem(series_raw_path, c.img, c.err, c.hdr, c.tg) IN
        /\ item_contents' = c
        /\ IF r.exc = NoExc
           THEN /\ series' = r.series
                /\ series_pc' = "yield"
                /\ series_exc' = NoExc
                /\ UNCHANGED group_index
           ELSE IF Skips(r.exc)
           THEN /\ series_exc' = r.exc
                /\ group_index' = group_index + 1
                /\ series_pc' = "groups"
                /\ UNCHANGED series
           ELSE /\ series_exc' = r.exc
                /\ series_pc' = "raised"
                /\ UNCHANGED <<series, group_index>>
    /\ UNCHANGED <<session_count, session_paths, groups, series_raw_path, emitted>>
    /\ UNCHANGED <<extractor_vars, tools_vars, post_vars>>

\* the consumer asks for the next Series
ResumeSeries ==
    /\ series_pc = "yield"
    /\ group_index' = group_index + 1
    /\ series_pc' = "groups"
    /\ series' = NoSeries
    /\ item_contents' = NoContents
    /\ UNCHANGED <<session_count, session_paths, groups, series_raw_path, emitted, series_exc>>
    /\ UNCHANGED <<extractor_vars, tools_vars, post_vars>>

\* The groups of the subtree are exhausted: back to the loop over the sessions. The names bound
\* for this subtree are bound again for the next one before they are read.
EndSession ==
    /\ series_pc = "groups"
    /\ group_index > Len(groups)
    /\ series_pc' = "sessions"
    /\ session_paths' = <<>>
    /\ groups' = <<>>
    /\ group_index' = 0
    /\ series_raw_path' = NoSeriesRawPath
    /\ emitted' = <<>>
    /\ item_contents' = NoContents
    /\ UNCHANGED <<session_count, series, series_exc>>
    /\ UNCHANGED <<extractor_vars, tools_vars, post_vars>>

\* sessions_iter is exhausted
EndSeries ==
    /\ series_pc = "sessions"
    /\ series_pc' = "done"
    /\ UNCHANGED <<session_count, session_paths, groups, group_index, series_raw_path, emitted,
                   series, series_exc, item_contents>>
    /\ UNCHANGED <<extractor_vars, tools_vars, post_vars>>

\* series_iter over the subtrees that sessions_iter hands to it
InitSeries ==
    /\ SeriesIdle
    /\ ToolsIdle
    /\ PostIdle
    /\ variant = "data"
    /\ part_paths = 0
    /\ part_index = 0
    /\ part_file = [corrupt |-> FALSE, members |-> <<>>]
    /\ sessions_root_paths = <<>>
    /\ sessions_element_paths = <<>>
    /\ session_index = 0
    /\ temp_root = {}
    /\ temp_exists = TRUE
    /\ pc = "loop"
    /\ exc = NoExc
    /\ reported = {}
    /\ part_yields = <<>>
    /\ earlier_yields = {}
    /\ caught_parts = FALSE
    /\ closed_by_consumer = FALSE

NextSeries == NextSession \/ NextGroup \/ ReadSeries \/ ResumeSeries \/ EndSession \/ EndSeries

SpecSeries == InitSeries /\ [][NextSeries]_vars

SeriesTypeOK ==
    /\ session_count \in 0..MaxSessions
    /\ group_index \in 0..(Len(groups) + 1)
    /\ series_pc \in {"sessions", "groups", "read", "yield", "done", "raised"}

\* ---------------------------------------------------------------- properties of series_iter and the grouper
\* the loop over groups.items() has dealt with item j of the current subtree
GroupHandled(j) ==
    \/ j < group_index
    \/ j = group_index /\ series_pc \in {"read", "yield", "raised"}

EmittedFor(j) == {emitted[h].raw : h \in {x \in 1..Len(emitted) : emitted[x].group = j}}

\* the errors of read_item that C8 lists: unsupported image format, uid without a subject or
\* session marker, spacing not derivable for the modality, collapsed tags that are no mapping
ItemErrorSites == {"format", "subject_id", "session_id", "spacing", "tags"}

\* C8: an error raised while one series descriptor is read aborts that series only:
\* series_iter is not ended by it and goes on with the remaining series.
C8_ItemErrorAbortsItemOnly ==
    ~(series_pc = "raised" /\ series_exc.site \in ItemErrorSites)

\* C9: every group of exactly two files gets one descriptor, in which one member is image_path
\* and the other member, the one that ends in .json, is tags_path; the descriptor is the one
\* that the other enumeration order of the two files gives.
C9_PairImageAndTags ==
    \A j \in 1..Len(groups) :
        (GroupHandled(j) /\ Len(groups[j].group) = 2) =>
            /\ Cardinality(EmittedFor(j)) = 1
            /\ \A raw \in EmittedFor(j) :
                  /\ raw.image_path # NoPath
                  /\ raw.tags_path # NoPath
                  /\ EndsWith(raw.tags_path, <<".json">>)
                  /\ {raw.image_path, raw.tags_path} = Range(groups[j].group)
                  /\ raw = GroupItem([name |-> groups[j].name,
                                      group |-> Reverse(groups[j].group)]).raw

\* name ends in _scans.tsv, lies directly under the session root, holds both markers
ScanManifest(path) ==
    /\ Len(path) >= 3
    /\ path[Len(path)] = ".tsv" /\ path[Len(path) - 1] = "scans" /\ path[Len(path) - 2] = "_"
    /\ \A j \in 1..Len(path) : path[j] # "/"
    /\ \E j \in 1..Len(path) : path[j] = "sub-"
    /\ \E j \in 2..Len(path) : path[j] = "ses-" /\ path[j - 1] = "_"

\* C10 (as stated): a group of exactly one file gets a descriptor with that file as image_path
\* and no tags_path, unless the file is the scan manifest, which gets no descriptor.
C10_SingleIsImage ==
    \A j \in 1..Len(groups) :
        (GroupHandled(j) /\ Len(groups[j].group) = 1) =>
            LET f == groups[j].group[1] IN
            IF ScanManifest(f) THEN EmittedFor(j) = {}
            ELSE EmittedFor(j) =
                    {[uid |-> Name(groups[j].name), image_path |-> f, tags_path |-> NoPath]}

\* C10 (amended): a group of exactly one file gets a descriptor with that file as image_path
\* and no tags_path when the file does not end in .json, and with that file as tags_path and
\* no image_path when it ends in .json, unless the file is the scan manifest, which gets no
\* descriptor.
C10_SingleImageOrTags ==
    \A j \in 1..Len(groups) :
        (GroupHandled(j) /\ Len(groups[j].group) = 1) =>
            LET f == groups[j].group[1] IN
            IF ScanManifest(f) THEN EmittedFor(j) = {}
            ELSE IF f[Len(f)] = ".json"
            THEN EmittedFor(j) =
                    {[uid |-> Name(groups[j].name), image_path |-> NoPath, tags_path |-> f]}
            ELSE EmittedFor(j) =
                    {[uid |-> Name(groups[j].name), image_path |-> f, tags_path |-> NoPath]}

\* C10 witness: in one subtree the scan manifest was dropped, a _scans.tsv file of a
\* subdirectory was emitted as an image and a lone .json file was emitted as tags
C10_Witness ==
    /\ \E j \in 1..Len(groups) :
          GroupHandled(j) /\ Len(groups[j].group) = 1 /\ ScanManifest(groups[j].group[1])
          /\ EmittedFor(j) = {}
    /\ \E j \in 1..Len(groups) :
          /\ GroupHandled(j) /\ Len(groups[j].group) = 1
          /\ EndsWith(groups[j].group[1], <<"_", "scans", ".tsv">>)
          /\ \E raw \in EmittedFor(j) : raw.image_path = groups[j].group[1]
    /\ \E j \in 1..Len(groups) :
          /\ GroupHandled(j) /\ Len(groups[j].group) = 1
          /\ \E raw \in EmittedFor(j) : raw.tags_path = groups[j].group[1]

\* ---------------------------------------------------------------- groups of three or more files
\* C11: a group of three or more files that share one group key gets no descriptor, and the
\* loop goes on: every other group of the subtree that it has dealt with, of one or two files
\* and not the scan manifest, has got its descriptor.
C11_GroupsOfThreeSkipped ==
    \A j \in 1..Len(groups) :
        (GroupHandled(j) /\ Len(groups[j].group) >= 3) =>
            /\ EmittedFor(j) = {}
            /\ j < group_index
            /\ \A h \in 1..Len(groups) :
                  (/\ h # j
                   /\ GroupHandled(h)
                   /\ Len(groups[h].group) <= 2
                   /\ ~(Len(groups[h].group) = 1 /\ ScanManifest(groups[h].group[1])))
                  => Cardinality(EmittedFor(h)) = 1

\* C11 witness: a group of three files was passed over and a group after it got a descriptor
C11_Witness ==
    \E j, h \in 1..Len(groups) :
        /\ j < h
        /\ Len(groups[j].group) = 3
        /\ GroupHandled(h)
        /\ EmittedFor(j) = {}
        /\ EmittedFor(h) # {}

\* ---------------------------------------------------------------- unrecognized extensions
\* a file that ends in none of .json, .tsv, .nii.gz, .png
UnknownSuffix(entry) ==
    /\ ~entry.is_dir
    /\ entry.path[Len(entry.path)] \notin {".json", ".tsv", ".nii.gz", ".png"}

\* C12: when a file of the session subtree ends in none of the four suffixes, the grouper has
\* failed before any descriptor of the session was emitted, and the failure has left
\* series_iter: no handler of series_iter took it, and the handler of sessions_iter, which is
\* suspended at its yield while series_iter runs the grouper, is not on its way.
C12_UnknownSuffixReachesCaller ==
    (\E j \in 1..Len(session_paths) : UnknownSuffix(session_paths[j])) =>
        /\ series_pc = "raised"
        /\ series_exc = Raise("AssertionError", "extension")
        /\ emitted = <<>>
        /\ series = NoSeries

\* C12 witness: the second subtree holds a file of a known suffix before the one that fails
C12_Witness ==
    /\ session_count = 2
    /\ series_pc = "raised"
    /\ \E j, h \in 1..Len(session_paths) :
          /\ j < h
          /\ ~session_paths[j].is_dir /\ ~UnknownSuffix(session_paths[j])
          /\ UnknownSuffix(session_paths[h])

\* ---------------------------------------------------------------- uids of one subtree
\* C13: the descriptors that the grouper emits for different groups of one session subtree
\* have different uids.
C13_DistinctUids ==
    \A a, b \in 1..Len(emitted) :
        emitted[a].group # emitted[b].group => emitted[a].raw.uid # emitted[b].raw.uid

\* ---------------------------------------------------------------- outcomes of read_item
\* read_item was called for series_raw_path; its outcome is in series and series_exc
ReadDone == item_contents # NoContents

\* C16: read_item on a descriptor whose image_path ends in neither .png nor .nii.gz raises
\* NotImplementedError and returns no Series, whatever the file holds.
C16_UnsupportedFormat ==
    (/\ ReadDone
     /\ series_raw_path.image_path # NoPath
     /\ series_raw_path.image_path[Len(series_raw_path.image_path)] \notin {".png", ".nii.gz"})
    => series_exc.type = "NotImplementedError" /\ series = NoSeries

\* series_raw_path has an image file that one of the two decoders is called on
Decodable ==
    /\ series_raw_path.image_path # NoPath
    /\ series_raw_path.image_path[Len(series_raw_path.image_path)] \in {".png", ".nii.gz"}

\* the error of the decoder that read_item called
DecoderError ==
    IF series_raw_path.image_path[Len(series_raw_path.image_path)] = ".png"
    THEN Raise("RuntimeError", "decode")
    ELSE Raise(item_contents.err, "decode")

\* C17: when the decoder fails on a file of zero bytes, read_item raises EmptyFileError and
\* series_iter passes over the descriptor and goes on with the next group; when the decoder
\* fails on a file that is not empty, its error leaves read_item as it is.
C17_EmptyFileSkipped ==
    /\ (ReadDone /\ Decodable /\ item_contents.img = "empty") =>
          /\ series_exc.type = "EmptyFileError"
          /\ series_pc = "groups"
          /\ group_index = emitted[Len(emitted)].group + 1
    /\ (ReadDone /\ Decodable /\ item_contents.img = "undecodable") =>
          /\ series_exc = DecoderError
          /\ series_pc = "raised"

\* the underscore-delimited components of the uid that read_item was called on
UidComponents == SplitUnderscore(series_raw_path.uid, 1, <<>>)

\* one of the components starts with the marker
HasMarker(marker) == \E j \in 1..Len(UidComponents) : StartsWith(UidComponents[j], <<marker>>)

\* the upper-cased last component
UpperCasedLast ==
    LET last == UidComponents[Len(UidComponents)] IN
    [j \in 1..Len(last) |->
        CASE last[j] = "ct" -> "CT"
          [] last[j] = "cr" -> "CR"
          [] last[j] = "scans" -> "SCANS"
          [] OTHER -> last[j]]

\* C18: when read_item has returned a Series, subject_id is a component of the uid that starts
\* with sub-, session_id is a component that starts with ses-, and modality is the upper-cased
\* last component; when no component starts with sub- or none starts with ses-, read_item
\* has raised and returned no Series.
C18_UidParsed ==
    ReadDone =>
        /\ series_exc = NoExc =>
              /\ series_pc = "yield"
              /\ series.uid = series_raw_path.uid
              /\ \E j \in 1..Len(UidComponents) :
                    StartsWith(UidComponents[j], <<"sub-">>) /\ series.subject_id = UidComponents[j]
              /\ \E j \in 1..Len(UidComponents) :
                    StartsWith(UidComponents[j], <<"ses-">>) /\ series.session_id = UidComponents[j]
              /\ series.modality = UpperCasedLast
        /\ (~HasMarker("sub-") \/ ~HasMarker("ses-")) =>
              /\ series_exc # NoExc
              /\ series = NoSeries

\* C18 witness: the Series of sub-S01_ses-E01_run-1_ct is yielded from the second subtree
C18_Witness ==
    /\ session_count = 2
    /\ series_pc = "yield"
    /\ series.uid = S01_E01 \o <<"_", "run-1", "_", "ct">>
    /\ series.subject_id = <<"sub-", "S01">>
    /\ series.session_id = <<"ses-", "E01">>
    /\ series.modality = <<"CT">>

\* ---------------------------------------------------------------- tools.down_type
MaxLen == 2

\* the elements a decoded array of 32-bit integers is drawn from
PixelValues ==
    {-40000, -32769, -32768, -129, -128, 0, 127, 128, 255, 256, 32767, 32768, 65535, 70000}

\* the arrays, as the sequences of their elements
Arrays == UNION { [1..n -> PixelValues] : n \in 0..MaxLen }

\* float16 has no finite element beyond 65504: the cast gives an infinity, which equals no
\* integer of the array
PosInf == 1000000

NegInf == -1000000

RECURSIVE Pow2(_)
Pow2(n) == IF n = 0 THEN 1 ELSE 2 * Pow2(n - 1)

\* astype to a signed integer type of the given width: the value wraps
AsSigned(v, bits) == ((v + Pow2(bits - 1)) % Pow2(bits)) - Pow2(bits - 1)

\* astype to an unsigned integer type of the given width: the value wraps
AsUnsigned(v, bits) == v % Pow2(bits)

Abs(v) == IF v < 0 THEN -v ELSE v

\* the exponent of the leading bit
RECURSIVE Log2(_)
Log2(a) == IF a < 2 THEN 0 ELSE 1 + Log2(a \div 2)

\* astype(np.float16): 11 significant bits, round to nearest, ties to even
AsFloat16(v) ==
    LET a == Abs(v)
        e == Log2(a)
        ulp == IF e <= 10 THEN 1 ELSE Pow2(e - 10)
        q == a \div ulp
        r == a % ulp
        rounded == IF 2 * r < ulp THEN q * ulp
                   ELSE IF 2 * r > ulp THEN (q + 1) * ulp
                   ELSE IF q % 2 = 0 THEN q * ulp
                   ELSE (q + 1) * ulp
    IN  IF rounded > 65504 THEN (IF v < 0 THEN NegInf ELSE PosInf)
        ELSE IF v < 0 THEN -rounded ELSE rounded

\* data.astype(dtype) on one element; every element of the narrower types is an int32
AsType(dtype, v) ==
    CASE dtype = "int8" -> AsSigned(v, 8)
      [] dtype = "uint8" -> AsUnsigned(v, 8)
      [] dtype = "int16" -> AsSigned(v, 16)
      [] dtype = "uint16" -> AsUnsigned(v, 16)
      [] dtype = "float16" -> AsFloat16(v)
      [] dtype = "int32" -> v

dtypes == <<"int8", "uint8", "int16", "uint16", "float16">>

\* faulty variant of DownTypeFrom: the test written as np.any(data == data.astype(dtype))
RECURSIVE DownTypeFromAny(_, _)
DownTypeFromAny(arr, j) ==
    IF j > Len(dtypes) THEN arr
    ELSE IF \E i \in 1..Len(arr.data) : arr.data[i] = AsType(dtypes[j], arr.data[i])
    THEN [data |-> [i \in 1..Len(arr.data) |-> AsType(dtypes[j], arr.data[i])],
          dtype |-> dtypes[j]]
    ELSE DownTypeFromAny(arr, j + 1)

\* the loop over the candidate types: the first one that np.all(data == data.astype(dtype))
RECURSIVE DownTypeFrom(_, _)
DownTypeFrom(arr, j) ==
    IF j > Len(dtypes) THEN arr
    ELSE IF \A i \in 1..Len(arr.data) : arr.data[i] = AsType(dtypes[j], arr.data[i])
    THEN [data |-> [i \in 1..Len(arr.data) |-> AsType(dtypes[j], arr.data[i])],
          dtype |-> dtypes[j]]
    ELSE DownTypeFrom(arr, j + 1)

down_type(arr) == DownTypeFrom(arr, 1)

\* `image = tools.down_type(image)` on a decoded array; without image_path there is no array
DownTypeStep ==
    /\ tool_pc = "down_type"
    /\ \/ \E d \in Arrays :
            /\ data' = d
            /\ image' = down_type([data |-> d, dtype |-> "int32"])
       \/ /\ data' = <<>>
          /\ image' = NoImage
    /\ tool_pc' = "tags_none"
    /\ UNCHANGED <<tags_data, tags, header, spacing, tool_exc>>
    /\ UNCHANGED <<extractor_vars, series_vars, post_vars>>

\* Line 200 of read_item, `tags = None`. Nothing from here on reads the image until it is put
\* into the Series: it is left out of the state.
TagsNone ==
    /\ tool_pc = "tags_none"
    /\ tags' = JNone
    /\ data' = <<>>
    /\ image' = NoImage
    /\ tool_pc' = "load_tags"
    /\ UNCHANGED <<tags_data, header, spacing, tool_exc>>
    /\ UNCHANGED <<extractor_vars, series_vars, post_vars>>

\* ---------------------------------------------------------------- tags documents
MaxTags == 2
MaxValues == 2

\* {"Value": l, "vr": t}
ValueVr(l) == JDict(<<"Value", "vr">>, <<JList(l), JStr("PN")>>)

\* the same object with its keys in the other order
VrValue(l) == JDict(<<"vr", "Value">>, <<JStr("PN"), JList(l)>>)

\* {"vr": t}
VrOnly == JDict(<<"vr">>, <<JStr("PN")>>)

\* the elements that the lists under Value are made of: a list is a prefix of one of these
ElementSeqs ==
    { <<JStr("A"), JStr("B"), JStr("C"), JStr("D")>>,
      <<JStr("CR"), JStr("A"), JStr("B"), JStr("C")>>,
      <<JStr("Dx"), JStr("A"), JStr("B"), JStr("C")>>,
      <<JStr("CT"), JStr("A"), JStr("B"), JStr("C")>>,
      <<JStr("0.5"), JStr("0.5"), JStr("0.5"), JStr("0.5")>>,
      <<ValueVr(<<JStr("A")>>), VrOnly, ValueVr(<<JStr("A"), JStr("B")>>),
        JDict(<<"00100010">>, <<ValueVr(<<JStr("B")>>)>>)>> }

ValueLists == { SubSeq(s, 1, n) : s \in ElementSeqs, n \in 0..MaxValues }

\* what a tag code, or a document, can hold
EntryValues ==
    { ValueVr(l) : l \in ValueLists }
    \cup { VrValue(<<JStr("A")>>), VrOnly, JStr("A"),
           JDict(<<"Value", "vr">>, <<JStr("A"), JStr("PN")>>) }

TagCodes == <<"00100010", "00280030", "00080060">>

\* the object with the tag codes of idx, in the order of TagCodes, and their values
RECURSIVE MappingFrom(_, _, _)
MappingFrom(idx, f, j) ==
    IF j > Len(TagCodes) THEN JDict(<<>>, <<>>)
    ELSE LET rest == MappingFrom(idx, f, j + 1) IN
         IF j \in idx THEN JDict(<<TagCodes[j]>> \o rest.keys, <<f[j]>> \o rest.items)
         ELSE rest

\* the documents deli.load can return: objects of at most MaxTags tag codes, the objects
\* and the string of EntryValues, and a list
TagsDocuments ==
    UNION { { MappingFrom(idx, f, 1) : f \in [idx -> EntryValues] } :
            idx \in { x \in SUBSET (1..Len(TagCodes)) : Cardinality(x) <= MaxTags } }
    \cup EntryValues
    \cup { JList(<<>>) }

\* ---------------------------------------------------------------- tools.parse_dicom_tags
\* pydicom.datadict.keyword_for_tag; for a key that is no tag the ValueError gives str(tag)
keyword_for_tag(tag) ==
    CASE tag = "00100010" -> "PatientName"
      [] tag = "00280030" -> "PixelSpacing"
      [] tag = "00080060" -> "Modality"
      [] OTHER -> tag

\* the first exception among the results, if there is one
FirstError(result) ==
    IF \E j \in 1..Len(result) : result[j].kind = "error"
    THEN result[CHOOSE j \in 1..Len(result) :
                   /\ result[j].kind = "error"
                   /\ \A h \in 1..(j - 1) : result[h].kind # "error"]
    ELSE JNone

\* faulty variant of parse_dicom_tags: a Value list of one element stays a list
RECURSIVE parse_dicom_tags_keep_list(_)
parse_dicom_tags_keep_list(t) ==
    IF t.kind # "dict" THEN t
    ELSE IF Len(t.keys) = 1
    THEN IF t.keys[1] = "vr" THEN JNone ELSE parse_dicom_tags_keep_list(t.items[1])
    ELSE IF Range(t.keys) = {"Value", "vr"}
    THEN LET value == t.items[CHOOSE j \in 1..Len(t.keys) : t.keys[j] = "Value"] IN
         IF value.kind # "list" THEN JError("AssertionError")
         ELSE LET result == [j \in 1..Len(value.items) |->
                                parse_dicom_tags_keep_list(value.items[j])] IN
              IF FirstError(result) # JNone THEN FirstError(result)
              ELSE IF result = <<>> THEN JNone
              ELSE JList(result)
    ELSE LET result_ == [j \in 1..Len(t.keys) |-> parse_dicom_tags_keep_list(t.items[j])] IN
         IF FirstError(result_) # JNone THEN FirstError(result_)
         ELSE JDict([j \in 1..Len(t.keys) |-> keyword_for_tag(t.keys[j])], result_)

\* The keys of a JSON object are distinct, and so are the keywords of the tag codes used here:
\* result_ gets one item per key, in the order of the document.
RECURSIVE parse_dicom_tags(_)
parse_dicom_tags(t) ==
    IF t.kind # "dict" THEN t
    ELSE IF Len(t.keys) = 1
    THEN IF t.keys[1] = "vr" THEN JNone ELSE parse_dicom_tags(t.items[1])
    ELSE IF Range(t.keys) = {"Value", "vr"}
    THEN LET value == t.items[CHOOSE j \in 1..Len(t.keys) : t.keys[j] = "Value"] IN
         IF value.kind # "list" THEN JError("AssertionError")
         ELSE LET result == [j \in 1..Len(value.items) |-> parse_dicom_tags(value.items[j])] IN
              IF FirstError(result) # JNone THEN FirstError(result)
              ELSE IF result = <<>> THEN JNone
              ELSE IF Len(result) = 1 THEN result[1]
              ELSE JList(result)
    ELSE LET result_ == [j \in 1..Len(t.keys) |-> parse_dicom_tags(t.items[j])] IN
         IF FirstError(result_) # JNone THEN FirstError(result_)
         ELSE JDict([j \in 1..Len(t.keys) |-> keyword_for_tag(t.keys[j])], result_)

\* Lines 201-205 of read_item: the tags file is loaded and collapsed, the two asserts. JNone in
\* tags_data stands for a descriptor without tags_path.
LoadTags ==
    /\ tool_pc = "load_tags"
    /\ \/ /\ tags_data' = JNone
          /\ tags' = JNone
          /\ tool_pc' = "spacing"
          /\ UNCHANGED tool_exc
       \/ \E doc \in TagsDocuments :
            /\ tags_data' = doc
            /\ IF doc.kind # "dict"
               THEN /\ tags' = JNone
                    /\ tool_exc' = Raise("AssertionError", "tags_data")
                    /\ tool_pc' = "raised"
               ELSE LET r == parse_dicom_tags(doc) IN
                    IF r.kind = "error"
                    THEN /\ tags' = JNone
                         /\ tool_exc' = Raise(r.str, "value")
                         /\ tool_pc' = "raised"
                    ELSE /\ tags' = r
                         /\ IF r.kind \in {"none", "dict"}
                            THEN tool_pc' = "spacing" /\ UNCHANGED tool_exc
                            ELSE tool_pc' = "raised" /\ tool_exc' = Raise("AssertionError", "tags")
    /\ UNCHANGED <<data, image, header, spacing>>
    /\ UNCHANGED <<extractor_vars, series_vars, post_vars>>

\* ---------------------------------------------------------------- tools.spacing_from_tags
\* faulty variant of Lower: the modality compared without .lower()
LowerAsIs(s) == s

\* str.lower on the strings of the documents
Lower(s) ==
    CASE s = "A" -> "a"
      [] s = "B" -> "b"
      [] s = "C" -> "c"
      [] s = "D" -> "d"
      [] s = "CR" -> "cr"
      [] s = "Dx" -> "dx"
      [] s = "CT" -> "ct"
      [] s = "PN" -> "pn"
      [] OTHER -> s

\* key in tags
Has(t, key) == \E j \in 1..Len(t.keys) : t.keys[j] = key

\* tags[key]
Get(t, key) == t.items[CHOOSE j \in 1..Len(t.keys) : t.keys[j] = key]

spacing_from_tags(t) ==
    IF t.kind = "none" THEN [exc |-> NoExc, spacing |-> JNone]
    ELSE IF t.kind # "dict" THEN [exc |-> NoExc, spacing |-> JNone]
    ELSE IF ~Has(t, "PixelSpacing") THEN [exc |-> NoExc, spacing |-> JNone]
    ELSE IF ~Has(t, "Modality") THEN [exc |-> NoExc, spacing |-> JNone]
    ELSE IF Get(t, "Modality").kind # "str"
    THEN [exc |-> Raise("AttributeError", "lower"), spacing |-> JNone]
    ELSE IF Lower(Get(t, "Modality").str) \in {"cr", "dx"}
    THEN [exc |-> NoExc, spacing |-> Get(t, "PixelSpacing")]
    ELSE [exc |-> Raise("NotImplementedError", "spacing"), spacing |-> JNone]

\* Lines 207-208 of read_item. The spacing of the header was read at line 190: None for a .png
\* file, without image and when spacing_from_nifty suppressed an exception.
SpacingStep ==
    /\ tool_pc = "spacing"
    /\ \E h \in {JNone, Zooms} :
        LET r == IF h # JNone THEN [exc |-> NoExc, spacing |-> h] ELSE spacing_from_tags(tags) IN
        /\ header' = h
        /\ spacing' = r.spacing
        /\ tool_exc' = r.exc
        /\ tool_pc' = IF r.exc = NoExc THEN "returned" ELSE "raised"
    /\ UNCHANGED <<data, image, tags_data, tags>>
    /\ UNCHANGED <<extractor_vars, series_vars, post_vars>>

\* read_item from line 198 on; sessions_iter and series_iter stay where they are
InitTools == InitSeries

NextTools == DownTypeStep \/ TagsNone \/ LoadTags \/ SpacingStep

SpecTools == InitTools /\ [][NextTools]_vars

ToolsTypeOK ==
    /\ tool_pc \in {"down_type", "tags_none", "load_tags", "spacing", "returned", "raised"}
    /\ Len(data) <= MaxLen
    /\ image.dtype \in {"none", "int32"} \cup Range(dtypes)
    /\ tags.kind \in {"none", "dict", "str", "list"}
    /\ spacing.kind \in {"none", "zooms", "str", "list"}

\* ---------------------------------------------------------------- properties of the tools
\* parse_dicom_tags has returned for the document in tags_data; its result is in tags
Collapsed == tags_data # JNone /\ tool_exc.site \notin {"tags_data", "value"}

\* {"Value": [v], "vr": t} with a string v, the keys in either order
SingleValue(e) ==
    /\ e.kind = "dict"
    /\ Range(e.keys) = {"Value", "vr"}
    /\ \E j \in 1..Len(e.keys) :
          /\ e.keys[j] = "Value"
          /\ e.items[j].kind = "list"
          /\ Len(e.items[j].items) = 1
          /\ e.items[j].items[1].kind = "str"

\* the v of such an object
ValueOf(e) == e.items[CHOOSE j \in 1..Len(e.keys) : e.keys[j] = "Value"].items[1]

\* the name that a tag code resolves to
TagName(code) ==
    CASE code = "00100010" -> "PatientName"
      [] code = "00280030" -> "PixelSpacing"
      [] code = "00080060" -> "Modality"

\* C14: a document of one or more entries tag-code -> {Value: [v], vr: t} collapses to the
\* mapping from the name of each tag code to its v; the document {"vr": t} collapses to None.
C14_EntriesCollapseToMapping ==
    Collapsed =>
        /\ (/\ tags_data.kind = "dict"
            /\ Len(tags_data.keys) >= 1
            /\ \A j \in 1..Len(tags_data.keys) :
                  tags_data.keys[j] \in Range(TagCodes) /\ SingleValue(tags_data.items[j]))
           => tags = JDict([j \in 1..Len(tags_data.keys) |-> TagName(tags_data.keys[j])],
                           [j \in 1..Len(tags_data.keys) |-> ValueOf(tags_data.items[j])])
        /\ (tags_data.kind = "dict" /\ tags_data.keys = <<"vr">>) => tags = JNone

\* C15: an object with exactly the keys Value and vr collapses to None when the list under
\* Value is empty, to the collapsed element when the list has one element, and to the list of
\* the collapsed elements, in their order, otherwise.
C15_ValueVrCollapse ==
    (/\ Collapsed
     /\ tags_data.kind = "dict"
     /\ Len(tags_data.keys) = 2
     /\ Range(tags_data.keys) = {"Value", "vr"})
    => LET value == tags_data.items[CHOOSE j \in 1..2 : tags_data.keys[j] = "Value"].items IN
       /\ Len(value) = 0 => tags = JNone
       /\ Len(value) = 1 => tags = parse_dicom_tags(value[1])
       /\ Len(value) >= 2 =>
             /\ tags.kind = "list"
             /\ Len(tags.items) = Len(value)
             /\ \A j \in 1..Len(value) : tags.items[j] = parse_dicom_tags(value[j])

\* C15 witness: a list of two objects under Value, the first of which collapses to a string
\* and the second to None
C15_Witness ==
    /\ Collapsed
    /\ tags_data = ValueVr(<<ValueVr(<<JStr("A")>>), VrOnly>>)
    /\ tags = JList(<<JStr("A"), JNone>>)

\* lines 207-208 of read_item have run
SpacingDone ==
    \/ tool_pc = "returned"
    \/ tool_pc = "raised" /\ tool_exc.site \notin {"tags_data", "value", "tags"}

\* the collapsed tags hold the key
HasKey(key) == tags.kind = "dict" /\ \E j \in 1..Len(tags.keys) : tags.keys[j] = key

\* the value the collapsed tags hold under the key
ValueAt(key) == tags.items[CHOOSE j \in 1..Len(tags.keys) : tags.keys[j] = key]

Represents(dtype, v) ==
    CASE dtype = "int8" -> v \in -128..127
      [] dtype = "uint8" -> v \in 0..255
      [] dtype = "int16" -> v \in -32768..32767
      [] dtype = "uint16" -> v \in 0..65535
      [] dtype = "float16" ->
            \E m \in 0..2047 : \E s \in {1, 2, 4, 8, 16, 32} : v = m * s \/ v = -(m * s)

\* the candidate types that represent every element of the array
Fitting == { j \in 1..Len(dtypes) : \A i \in 1..Len(data) : Represents(dtypes[j], data[i]) }

\* C20: down_type returns an array of the same shape and the same values, which cast back to
\* the original type is the input; its element type is the first of int8, uint8, int16,
\* uint16, float16 that represents every element exactly, and the original type when none does.
C20_DownTypeExact ==
    (tool_pc = "tags_none" /\ image # NoImage) =>
        /\ Len(image.data) = Len(data)
        /\ \A i \in 1..Len(data) : image.data[i] = data[i]
        /\ IF Fitting = {} THEN image.dtype = "int32"
           ELSE /\ image.dtype \in {"int8", "uint8", "int16", "uint16", "float16"}
                /\ \E j \in Fitting :
                      /\ image.dtype = dtypes[j]
                      /\ \A h \in Fitting : j <= h

\* C20 witness: an array with an element below the 16-bit integers and one above the signed
\* ones got the element type float16
C20_Witness ==
    /\ tool_pc = "tags_none"
    /\ image.dtype = "float16"
    /\ \E i, j \in 1..Len(data) : data[i] < -32768 /\ data[j] > 32767

\* ================================================================ postprocessing.py
\* ---------------------------------------------------------------- input images
MaxSide == 3

Shapes == {<<a, b, c>> : a \in 0..MaxSide, b \in 0..MaxSide, c \in 0..MaxSide}

Checker(p) == 2 * ((p[1] + p[2] + p[3]) % 2)

\* the images process_ct_image is called with: of one value, a checkerboard, a checkerboard
\* behind a slice of one value (at the start of axis 0, at its end, at the start of axis 0 and
\* the end of axis 2), and one distinct value per position
InputImages ==
    {Zeros(s) : s \in Shapes}
    \cup {[shape |-> s, vox |-> [p \in Index(s) |-> Checker(p)]] : s \in Shapes}
    \cup {[shape |-> s, vox |-> [p \in Index(s) |-> IF p[1] = 1 THEN 1 ELSE Checker(p)]]
            : s \in Shapes}
    \cup {[shape |-> s, vox |-> [p \in Index(s) |-> IF p[1] = s[1] THEN 1 ELSE Checker(p)]]
            : s \in Shapes}
    \cup {[shape |-> s,
           vox |-> [p \in Index(s) |-> IF p[1] = 1 \/ p[3] = s[3] THEN 1 ELSE Checker(p)]]
            : s \in Shapes}
    \cup {[shape |-> s, vox |-> [p \in Index(s) |-> 25 * p[1] + 5 * p[2] + p[3]]] : s \in Shapes}

\* ---------------------------------------------------------------- rotations
\* m[..., ::-1, ...] on one axis
Flip(m, axis) ==
    CHOOSE flipped \in
        {[shape |-> v.shape,
          vox |-> [p \in Index(v.shape) |-> v.vox[[p EXCEPT ![axis] = v.shape[axis] + 1 - p[axis]]]]]
            : v \in {m}} : TRUE

\* np.transpose with the two axes exchanged
Transpose(m, a, b) ==
    LET swap(p) == [p EXCEPT ![a] = p[b], ![b] = p[a]]
    IN  CHOOSE transposed \in
            {[shape |-> swap(v.shape), vox |-> [p \in Index(swap(v.shape)) |-> v.vox[swap(p)]]]
                : v \in {m}} : TRUE

\* np.rot90(m, 1, axes): transpose(flip(m, axes[1]), axes exchanged)
rot90(m, axes) == Transpose(Flip(m, axes[2]), axes[1], axes[2])

\* a faulty variant of Transform.transform_image: a rotation in the plane of axes 0 and 1
transform_image_rotated(m) == Transpose(Flip(m, 2), 1, 2)

\* Transform.transform_image, inherited by RotateCTTransformType0
transform_image_0(m) == m

\* Transform.transform_spacing, inherited by RotateCTTransformType0
transform_spacing_0(s) == s

\* RotateCTTransformType1: np.rot90(np.rot90(image, 1, (1, 2)), 1)[..., ::-1]
transform_image_1(m) == Flip(rot90(rot90(m, <<2, 3>>), <<1, 2>>), 3)

\* a faulty variant of transform_spacing: the spacing stays in the order of the input axes
transform_spacing_unpermuted(s) == s

transform_spacing_1(s) == <<s[3], s[1], s[2]>>

\* RotateCTTransformType2: np.rot90(image, 1, (1, 2))[..., ::-1]
transform_image_2(m) == Flip(rot90(m, <<2, 3>>), 3)

transform_spacing_2(s) == <<s[1], s[3], s[2]>>

\* RotateCTTransformType3: np.rot90(image, 1, (0, 1))[..., ::-1]
transform_image_3(m) == Flip(rot90(m, <<1, 2>>), 3)

transform_spacing_3(s) == <<s[2], s[1], s[3]>>

\* RotateCTTransformType4: np.rot90(image, 1, (1, 2))[..., ::-1, ::-1]
transform_image_4(m) == Flip(Flip(rot90(m, <<2, 3>>), 2), 3)

transform_spacing_4(s) == <<s[1], s[3], s[2]>>

\* RotateCTTransformType5: np.rot90(image, 1, (0, 1))
transform_image_5(m) == rot90(m, <<1, 2>>)

transform_spacing_5(s) == <<s[2], s[1], s[3]>>

TransformTypes == {"type_0", "type_1", "type_2", "type_3", "type_4", "type_5"}

\* get_rotate_ct_transform(transform_type)(image, spacing)
rotate_ct_transform(m, s, t) ==
    CASE t = "type_0" -> [image |-> transform_image_0(m), spacing |-> transform_spacing_0(s)]
      [] t = "type_1" -> [image |-> transform_image_1(m), spacing |-> transform_spacing_1(s)]
      [] t = "type_2" -> [image |-> transform_image_2(m), spacing |-> transform_spacing_2(s)]
      [] t = "type_3" -> [image |-> transform_image_3(m), spacing |-> transform_spacing_3(s)]
      [] t = "type_4" -> [image |-> transform_image_4(m), spacing |-> transform_spacing_4(s)]
      [] t = "type_5" -> [image |-> transform_image_5(m), spacing |-> transform_spacing_5(s)]

\* a series identifier, as the sequence of its parts
CtUid(subject, modality) == <<subject, "_", "ses-E01", "_", modality>>

\* mapping_bimcv_covid19_ct_rotate_transforms(): one identifier per variant; every other
\* identifier is absent from the table
RotateTable ==
    [u \in {CtUid(d, "ct") : d \in {"sub-S00", "sub-S01", "sub-S02", "sub-S03", "sub-S04", "sub-S05"}} |->
        CASE u[1] = "sub-S00" -> "type_0"
          [] u[1] = "sub-S01" -> "type_1"
          [] u[1] = "sub-S02" -> "type_2"
          [] u[1] = "sub-S03" -> "type_3"
          [] u[1] = "sub-S04" -> "type_4"
          [] u[1] = "sub-S05" -> "type_5"]

\* dict.get(series_id)
TableGet(u) == IF u \in DOMAIN RotateTable THEN RotateTable[u] ELSE "None"

SeriesIds == DOMAIN RotateTable \cup {CtUid("sub-S06", "ct"), CtUid("sub-S06", "cr")}

\* ---------------------------------------------------------------- _clean_3dimage
\* a faulty variant of edge_idxs: on every axis the last slice comes before the first
edge_idxs_last_first ==
    << [axis |-> 1, idx |-> -1, get |-> "last"], [axis |-> 1, idx |-> 0, get |-> "first"],
       [axis |-> 2, idx |-> -1, get |-> "last"], [axis |-> 2, idx |-> 0, get |-> "first"],
       [axis |-> 3, idx |-> -1, get |-> "last"], [axis |-> 3, idx |-> 0, get |-> "first"] >>

\* edge_idxs: the index of the face on its axis and the slice that drops it
edge_idxs ==
    << [axis |-> 1, idx |-> 0, get |-> "first"], [axis |-> 1, idx |-> -1, get |-> "last"],
       [axis |-> 2, idx |-> 0, get |-> "first"], [axis |-> 2, idx |-> -1, get |-> "last"],
       [axis |-> 3, idx |-> 0, get |-> "first"], [axis |-> 3, idx |-> -1, get |-> "last"] >>

\* the shape without one axis
Without(shape, axis) == SubSeq(shape, 1, axis - 1) \o SubSeq(shape, axis + 1, Len(shape))

\* a position of the face, put back at position at of the axis
Within(p, axis, at) == SubSeq(p, 1, axis - 1) \o <<at>> \o SubSeq(p, axis, Len(p))

\* image[edge_idx] on an axis that is not empty
Face(m, e) ==
    LET at == IF e.idx = 0 THEN 1 ELSE m.shape[e.axis]
    IN  [shape |-> Without(m.shape, e.axis),
         vox |-> [p \in Index(Without(m.shape, e.axis)) |-> m.vox[Within(p, e.axis, at)]]]

\* a faulty variant of image[get_idx]: a slice is dropped at both ends of the axis
GetIdxBothEnds(m, e) ==
    LET n == m.shape[e.axis]
        shape == [m.shape EXCEPT ![e.axis] = IF n >= 2 THEN n - 2 ELSE 0]
    IN  [shape |-> shape,
         vox |-> [p \in Index(shape) |-> m.vox[[p EXCEPT ![e.axis] = p[e.axis] + 1]]]]

\* a faulty variant of image[get_idx]: the slices that stay come out in reverse order
GetIdxReversed(m, e) ==
    LET n == m.shape[e.axis]
        shape == [m.shape EXCEPT ![e.axis] = IF n >= 1 THEN n - 1 ELSE 0]
        from == IF e.get = "first" THEN 1 ELSE 0
    IN  [shape |-> shape,
         vox |-> [p \in Index(shape) |-> m.vox[[p EXCEPT ![e.axis] = n - p[e.axis] + from]]]]

\* image[get_idx]: slice(1, None) or slice(None, -1) on the axis
GetIdx(m, e) ==
    LET n == m.shape[e.axis]
        shape == [m.shape EXCEPT ![e.axis] = IF n >= 1 THEN n - 1 ELSE 0]
        from == IF e.get = "first" THEN 1 ELSE 0
    IN  [shape |-> shape,
         vox |-> [p \in Index(shape) |-> m.vox[[p EXCEPT ![e.axis] = p[e.axis] + from]]]]

\* ---------------------------------------------------------------- the filter of a face
Values(m) == {m.vox[p] : p \in DOMAIN m.vox}

Size(m) == Cardinality(DOMAIN m.vox)

\* _blank_filter: len(np.unique(image)) == 1
blank_filter(m) == Cardinality(Values(m)) = 1

\* element n (from 0) of the sorted elements of the face
Sorted(m, n) ==
    CHOOSE x \in Values(m) :
        /\ Cardinality({p \in DOMAIN m.vox : m.vox[p] < x}) <= n
        /\ n < Cardinality({p \in DOMAIN m.vox : m.vox[p] <= x})

\* 100 * np.quantile(image, q / 100): linear interpolation at the position (size - 1) * q / 100
Quantile100(m, q) ==
    LET at == (Size(m) - 1) * q
        lo == at \div 100
        hi == IF lo + 1 < Size(m) THEN lo + 1 ELSE lo
    IN  (100 - (at % 100)) * Sorted(m, lo) + (at % 100) * Sorted(m, hi)

Max(S) == CHOOSE x \in S : \A y \in S : y <= x

Min(S) == CHOOSE x \in S : \A y \in S : x <= y

\* the sum of the first n elements of column c
RECURSIVE ColumnSum(_, _, _)
ColumnSum(m, c, n) == IF n = 0 THEN 0 ELSE m.vox[<<n, c>>] + ColumnSum(m, c, n - 1)

\* the sum of the first n elements of row r
RECURSIVE RowSum(_, _, _)
RowSum(m, r, n) == IF n = 0 THEN 0 ELSE m.vox[<<r, n>>] + RowSum(m, r, n - 1)

\* rows * image.mean(0): the sum of each column
ColumnSums(m) == [c \in 1..m.shape[2] |-> ColumnSum(m, c, m.shape[1])]

\* columns * image.mean(1): the sum of each row
RowSums(m) == [r \in 1..m.shape[1] |-> RowSum(m, r, m.shape[2])]

\* the positions under a filter of size k centred on position j (from 0) of a vector of length n,
\* with mode "reflect": positions j - k \div 2 .. j + k - k \div 2 - 1, mirrored at both ends
Window(n, j, k) ==
    LET reflect(x) == LET y == x % (2 * n) IN IF y < n THEN y ELSE 2 * n - 1 - y
    IN  {reflect(x) + 1 : x \in (j - k \div 2)..(j + k - k \div 2 - 1)}

\* maximum_filter1d - minimum_filter1d with size k, summed over the first n positions
RECURSIVE Spread(_, _, _)
Spread(f, k, n) ==
    IF n = 0 THEN 0
    ELSE Max({f[x] : x \in Window(Len(f), n - 1, k)}) - Min({f[x] : x \in Window(Len(f), n - 1, k)})
         + Spread(f, k, n - 1)

\* _regularity_filter: _estimate_regularity(image) > 0.1 with k = 10, in exact arithmetic.
\* With d = max_ - min_ the estimate is
\*   (Spread(column sums) / (rows * d) + Spread(row sums) / (columns * d)) / (columns + rows),
\* and it is 0.0 when d <= 0 (the ValueError is suppressed).
regularity_filter(m) ==
    \E d100 \in {Quantile100(m, 97) - Quantile100(m, 3)}, one \in {ColumnSums(m)}, two \in {RowSums(m)} :
        /\ d100 > 0
        /\ 1000 * (Len(one) * Spread(one, 10, Len(one)) + Len(two) * Spread(two, 10, Len(two)))
             > (Len(one) + Len(two)) * d100 * Len(two) * Len(one)

\* _blank_and_regularity_filter on a face that has elements
blank_and_regularity_filter(m) == blank_filter(m) \/ regularity_filter(m)

\* np.quantile of a face without elements: it returns nan, and the estimate is then not above
\* 0.1, or it raises, outside the suppress block
EmptyFaceOutcomes == {"nan", "raise"}

\* ---------------------------------------------------------------- process_ct_image, clean_ct_image
\* a faulty variant of the break: the scan goes on at the next face
BreakToNext(j) == j + 1

\* the break leaves the for loop and `while True` starts it again at edge_idxs[0]
Break(j) == 1

\* process_ct_image up to the call of clean_ct_image, and _clean_3dimage up to its loop
ProcessCtImage ==
    /\ ct_pc = "idle"
    /\ calls = 0
    /\ \E u \in SeriesIds, m \in InputImages :
        /\ series_id' = u
        /\ ct_input' = m
        /\ IF ~EndsWith(u, <<"ct">>)
           THEN /\ ct_pc' = "raised"
                /\ ct_exc' = Raise("ValueError", "process_ct_image")
                /\ UNCHANGED <<transform_type, clean_input, ct_image, ct_spacing, calls>>
           ELSE LET t == TableGet(u)
                    rotated == IF t # "None" THEN rotate_ct_transform(m, InputSpacing, t)
                               ELSE [image |-> m, spacing |-> InputSpacing]
                IN  /\ transform_type' = t
                    /\ clean_input' = rotated.image
                    /\ ct_image' = rotated.image
                    /\ ct_spacing' = rotated.spacing
                    /\ calls' = 1
                    /\ ct_pc' = "scan"
                    /\ ct_exc' = NoExc
    /\ UNCHANGED <<edge, trims>>
    /\ UNCHANGED <<extractor_vars, series_vars, tools_vars, tests_vars, webdav_vars, prepare_vars>>

\* one iteration of `for edge_idx, get_idx in edge_idxs`
ExamineEdge ==
    /\ ct_pc = "scan"
    /\ edge <= Len(edge_idxs)
    /\ LET e == edge_idxs[edge]
       IN  IF ct_image.shape[e.axis] = 0
           THEN \* index 0 or -1 is out of bounds for an axis of size 0
                /\ ct_pc' = "raised"
                /\ ct_exc' = Raise("IndexError", "image[edge_idx]")
                /\ UNCHANGED <<ct_image, edge, trims>>
           ELSE \E face \in {Face(ct_image, e)} :
                IF Size(face) = 0
                THEN \E outcome \in EmptyFaceOutcomes :
                        IF outcome = "raise"
                        THEN /\ ct_pc' = "raised"
                             /\ ct_exc' = Raise("Exception", "np.quantile")
                             /\ UNCHANGED <<ct_image, edge, trims>>
                        ELSE /\ edge' = edge + 1
                             /\ UNCHANGED <<ct_pc, ct_exc, ct_image, trims>>
                ELSE IF blank_and_regularity_filter(face)
                THEN /\ ct_image' = GetIdx(ct_image, e)
                     /\ trims' = Append(trims, edge)
                     /\ edge' = Break(edge)
                     /\ UNCHANGED <<ct_pc, ct_exc>>
                ELSE /\ edge' = edge + 1
                     /\ UNCHANGED <<ct_pc, ct_exc, ct_image, trims>>
    /\ UNCHANGED <<series_id, transform_type, ct_input, clean_input, ct_spacing, calls>>
    /\ UNCHANGED <<extractor_vars, series_vars, tools_vars, tests_vars, webdav_vars, prepare_vars>>

\* the else of the for loop: no face passed the filter, `while True` ends and image is returned
ReturnImage ==
    /\ ct_pc = "scan"
    /\ edge > Len(edge_idxs)
    /\ ct_pc' = "returned"
    /\ UNCHANGED <<series_id, transform_type, ct_input, clean_input, ct_image, ct_spacing, edge,
                   trims, calls, ct_exc>>
    /\ UNCHANGED <<extractor_vars, series_vars, tools_vars, tests_vars, webdav_vars, prepare_vars>>

\* clean_ct_image called on the array it returned
CleanAgain ==
    /\ ct_pc = "returned"
    /\ calls = 1
    /\ calls' = 2
    /\ clean_input' = ct_image
    /\ edge' = 1
    /\ trims' = <<>>
    /\ ct_pc' = "scan"
    /\ UNCHANGED <<series_id, transform_type, ct_input, ct_image, ct_spacing, ct_exc>>
    /\ UNCHANGED <<extractor_vars, series_vars, tools_vars, tests_vars, webdav_vars, prepare_vars>>

InitCt == InitSeries

NextCt == ProcessCtImage \/ ExamineEdge \/ ReturnImage \/ CleanAgain

SpecCt == InitCt /\ [][NextCt]_vars

\* the calls run to their end
FairSpecCt == SpecCt /\ WF_vars(NextCt)

CtTypeOK ==
    /\ ct_pc \in {"idle", "scan", "returned", "raised"}
    /\ edge \in 1..(Len(edge_idxs) + 1)
    /\ calls \in 0..2
    /\ transform_type \in TransformTypes \cup {"None"}

\* ---------------------------------------------------------------- C21
\* C21: border trimming terminates on every volume of shape (s0, s1, s2): every trim step
\* shortens exactly one axis of the volume by one and leaves the other two as they are, no call
\* makes more than s0 + s1 + s2 trim steps, and every call that entered the loop leaves it, by
\* returning or by raising.
C21_TrimmingTerminates ==
    /\ [](Len(trims) <= clean_input.shape[1] + clean_input.shape[2] + clean_input.shape[3])
    /\ [][Len(trims') = Len(trims) + 1 =>
            \E axis \in 1..3 :
                /\ ct_image.shape[axis] >= 1
                /\ ct_image'.shape = [ct_image.shape EXCEPT ![axis] = @ - 1]]_vars
    /\ (ct_pc = "scan") ~> (ct_pc \in {"returned", "raised"})

\* a call that returned after it shortened two different axes
C21_Witness ==
    /\ ct_pc = "returned"
    /\ Len(trims) = 2
    /\ edge_idxs[trims[1]].axis # edge_idxs[trims[2]].axis

\* ---------------------------------------------------------------- C22
\* the array passed to clean_ct_image has elements and they all hold one value
BlankVolume == Size(clean_input) >= 1 /\ Cardinality(Values(clean_input)) = 1

\* C22: when clean_ct_image is called on a volume whose elements all hold the same value, the
\* call ends by returning an array without elements, and no exception is raised.
C22_BlankVolumeReturnsEmpty ==
    (BlankVolume /\ ct_pc \in {"returned", "raised"}) =>
        (ct_pc = "returned" /\ Size(ct_image) = 0 /\ ct_exc = NoExc)

\* ---------------------------------------------------------------- C23
\* the six faces in the order axis 0 min, axis 0 max, axis 1 min, axis 1 max, axis 2 min, axis 2 max
SixFaces ==
    [j \in 1..6 |-> [axis |-> (j + 1) \div 2,
                     idx |-> IF j % 2 = 1 THEN 0 ELSE -1,
                     get |-> IF j % 2 = 1 THEN "first" ELSE "last"]]

\* the degeneracy predicate holds for the face
Degenerate(m, f) ==
    /\ m.shape[f.axis] >= 1
    /\ \E face \in {Face(m, f)} : Size(face) >= 1 /\ blank_and_regularity_filter(face)

\* C23: a scan examines the faces in the order axis 0 min, axis 0 max, axis 1 min, axis 1 max,
\* axis 2 min, axis 2 max (the faces before the one under examination were found not
\* degenerate on the current volume); a trim step removes exactly the outermost slice of the
\* first degenerate face in that order and the scan starts again at axis 0 min; the loop
\* returns only a volume none of whose six faces is degenerate.
C23_ScanOrder ==
    /\ [](ct_pc = "scan" => \A j \in 1..(edge - 1) : ~Degenerate(ct_image, SixFaces[j]))
    /\ [][Len(trims') = Len(trims) + 1 =>
            \E j \in 1..6 :
                /\ Degenerate(ct_image, SixFaces[j])
                /\ \A before \in 1..(j - 1) : ~Degenerate(ct_image, SixFaces[before])
                /\ ct_image' = GetIdx(ct_image, SixFaces[j])
                /\ trims' = Append(trims, j)
                /\ edge' = 1]_vars
    /\ [](ct_pc = "returned" => \A j \in 1..6 : ~Degenerate(ct_image, SixFaces[j]))

\* a call that returned after it removed the first slice of axis 0 and then, in a new scan that
\* passed the faces of axis 0, a slice of another axis
C23_Witness ==
    /\ ct_pc = "returned"
    /\ Len(trims) = 2
    /\ trims[1] = 1
    /\ trims[2] > 2

\* ---------------------------------------------------------------- C24
\* the array passed to clean_ct_image has its six faces and none of them is degenerate
NoDegenerateFace ==
    /\ \A axis \in 1..3 : clean_input.shape[axis] >= 1
    /\ \A j \in 1..6 : ~Degenerate(clean_input, SixFaces[j])

\* C24: trimming is idempotent: when clean_ct_image returned r, the call clean_ct_image(r)
\* ends by returning r, with the same shape and values and without a trim step; and a call on a
\* volume that has no degenerate face ends by returning that volume unchanged.
C24_Idempotent ==
    /\ (calls = 2 /\ ct_pc \in {"returned", "raised"}) =>
            (ct_pc = "returned" /\ ct_image = clean_input /\ trims = <<>>)
    /\ (NoDegenerateFace /\ ct_pc \in {"returned", "raised"}) =>
            (ct_pc = "returned" /\ ct_image = clean_input /\ trims = <<>>)

\* the second call returned, on an array that the first call had trimmed
C24_Witness ==
    /\ calls = 2
    /\ ct_pc = "returned"
    /\ transform_type = "None"
    /\ Size(ct_image) < Size(ct_input)
    /\ ct_image = clean_input

\* ---------------------------------------------------------------- C25
\* C25: rotation variant type_0 is the identity: rotate_ct_transform with type_0 returns the
\* image and the spacing it was given, with the same shape and values; and process_ct_image
\* for an identifier that is absent from the table, like for one that the table maps to type_0,
\* passes its input image unchanged to the trimming and returns the input spacing.
C25_Type0Identity ==
    calls >= 1 =>
        /\ rotate_ct_transform(ct_input, InputSpacing, "type_0")
             = [image |-> ct_input, spacing |-> InputSpacing]
        /\ (series_id \notin DOMAIN RotateTable => transform_type = "None")
        /\ (calls = 1 /\ transform_type \in {"None", "type_0"}) => clean_input = ct_input
        /\ transform_type \in {"None", "type_0"} => ct_spacing = InputSpacing

\* process_ct_image returned for an identifier absent from the table, on an image with axes of
\* different lengths, after a trim step
C25_Witness ==
    /\ ct_pc = "returned"
    /\ calls = 1
    /\ series_id \notin DOMAIN RotateTable
    /\ ct_input.shape = <<3, 2, 2>>
    /\ trims # <<>>
    /\ ct_spacing = InputSpacing

\* ---------------------------------------------------------------- C26
\* the permutations of the three axes
AxisPermutations == {f \in [1..3 -> 1..3] : \A j \in 1..3 : \E i \in 1..3 : f[i] = j}

\* the position of the input that position p of the output comes from, when output axis i is
\* input axis perm[i], reversed where reversed[i]
SourcePosition(p, shape, perm, reversed) ==
    [j \in 1..3 |->
        LET i == CHOOSE i \in 1..3 : perm[i] = j
        IN  IF reversed[i] THEN shape[i] + 1 - p[i] ELSE p[i]]

\* C26: for each of the six rotation variants and every shape, the image transform is a
\* bijection on the positions, an axis permutation combined with axis reversals that changes
\* and loses no value, and the spacing transform is the same axis permutation: output axis i
\* has the length and the spacing of input axis perm[i].
C26_RotationPermutesAxes ==
    (calls = 1 /\ transform_type \in TransformTypes) =>
        \E perm \in AxisPermutations, reversed \in [1..3 -> BOOLEAN] :
            /\ \A i \in 1..3 : clean_input.shape[i] = ct_input.shape[perm[i]]
            /\ \A i \in 1..3 : ct_spacing[i] = InputSpacing[perm[i]]
            /\ \A p \in Index(clean_input.shape) :
                  clean_input.vox[p]
                    = ct_input.vox[SourcePosition(p, clean_input.shape, perm, reversed)]

\* variant type_1 was applied to an image with three different axis lengths and a different
\* value at every position
C26_Witness ==
    /\ calls = 1
    /\ transform_type = "type_1"
    /\ ct_input.shape = <<1, 2, 3>>
    /\ clean_input.shape = <<3, 1, 2>>
    /\ Cardinality(Values(ct_input)) = 6
    /\ ct_spacing = <<3, 1, 2>>

\* ---------------------------------------------------------------- C28
\* the number of elements of the sequence that are in the set
RECURSIVE CountIn(_, _)
CountIn(s, S) ==
    IF s = <<>> THEN 0 ELSE (IF Head(s) \in S THEN 1 ELSE 0) + CountIn(Tail(s), S)

\* C28: the array of clean_ct_image is at every step, and when it is returned, a contiguous
\* sub-block of the input of the call: on every axis, as many slices are missing at the start as
\* there were trim steps at the first face of the axis (the offset) and as many at the end as
\* there were trim steps at its last face, and every element equals the input element at its
\* position plus the offset; every axis of a returned array has length at least 1.
C28_SubBlock ==
    /\ calls >= 1 =>
        \E offset \in {[axis \in 1..3 |-> CountIn(trims, {2 * axis - 1})]} :
            /\ \A axis \in 1..3 :
                  ct_image.shape[axis] + CountIn(trims, {2 * axis - 1, 2 * axis})
                    = clean_input.shape[axis]
            /\ \A p \in Index(ct_image.shape) :
                  ct_image.vox[p] = clean_input.vox[[axis \in 1..3 |-> p[axis] + offset[axis]]]
    /\ ct_pc = "returned" => \A axis \in 1..3 : ct_image.shape[axis] >= 1

\* a call returned an array of more than one value after it dropped a slice at the start of an
\* axis and a slice at the end of an axis
C28_Witness ==
    /\ ct_pc = "returned"
    /\ calls = 1
    /\ \E j, k \in 1..Len(trims) : trims[j] % 2 = 1 /\ trims[k] % 2 = 0
    /\ Cardinality(Values(ct_image)) >= 2

\* ================================================================ tests()
MaxRows == 3

\* a date of the table, "DD.MM.YYYY", as its parts after split(".")
Dates == {<<1, 3, 2020>>, <<2, 1, 2020>>}

\* the rows of the test table
Rows == [participant : {"sub-S01", "sub-S02"}, date : Dates, test : {"PCR"},
         result : {"NEGATIVO", "POSITIVO"}]

Tables == UNION {[1..n -> Rows] : n \in 0..MaxRows}

results_map ==
    [r \in {"INDETERMINADO", "NEGATIVO", "POSITIVO"} |->
        CASE r = "INDETERMINADO" -> "indeterminate"
          [] r = "NEGATIVO" -> "negative"
          [] r = "POSITIVO" -> "positive"]

\* Test(subject_id=row.participant, date="-".join(row.date.split(".")[::-1]), ...)
Test(row) ==
    [subject_id |-> row.participant, date |-> Reverse(row.date), test |-> row.test,
     result |-> results_map[row.result]]

\* the order of the date strings "YYYY-MM-DD" (parts of fixed width)
DateLess(a, b) ==
    \/ a[1] < b[1]
    \/ a[1] = b[1] /\ a[2] < b[2]
    \/ a[1] = b[1] /\ a[2] = b[2] /\ a[3] < b[3]

\* the test put behind the tests of the sorted list that are not later than it
InsertByDate(list, t) ==
    LET at == Cardinality({j \in 1..Len(list) : ~DateLess(t.date, list[j].date)})
    IN  SubSeq(list, 1, at) \o <<t>> \o SubSeq(list, at + 1, Len(list))

\* sorted(group, key=op.attrgetter("date")), which is stable
RECURSIVE SortedByDate(_)
SortedByDate(list) ==
    IF list = <<>> THEN <<>>
    ELSE InsertByDate(SortedByDate(SubSeq(list, 1, Len(list) - 1)), list[Len(list)])

\* it.groupby(all_tests, op.attrgetter("subject_id")): one group per run of consecutive tests
\* of one subject
RECURSIVE GroupBy(_)
GroupBy(list) ==
    IF list = <<>> THEN <<>>
    ELSE LET runs == GroupBy(SubSeq(list, 1, Len(list) - 1))
             t == list[Len(list)]
         IN  IF runs # <<>> /\ runs[Len(runs)].key = t.subject_id
             THEN [runs EXCEPT ![Len(runs)].group = Append(@, t)]
             ELSE Append(runs, [key |-> t.subject_id, group |-> <<t>>])

\* d[key] = value on an insertion-ordered dict, as the sequence of its items
TestsSet(d, key, value) ==
    IF \E j \in 1..Len(d) : d[j].key = key
    THEN [j \in 1..Len(d) |-> IF d[j].key = key THEN [key |-> key, value |-> value] ELSE d[j]]
    ELSE Append(d, [key |-> key, value |-> value])

\* {subject_id: sorted(group, ...) for subject_id, group in it.groupby(...)}
RECURSIVE GroupedTests(_)
GroupedTests(runs) ==
    IF runs = <<>> THEN <<>>
    ELSE TestsSet(GroupedTests(SubSeq(runs, 1, Len(runs) - 1)),
                 runs[Len(runs)].key, SortedByDate(runs[Len(runs)].group))

\* pd.read_csv(file, sep="\t")
ReadCsv ==
    /\ tests_pc = "idle"
    /\ dataframe' \in Tables
    /\ tests_pc' = "read"
    /\ UNCHANGED <<all_tests, tests_result>>
    /\ UNCHANGED <<extractor_vars, series_vars, tools_vars, ct_vars, webdav_vars, prepare_vars>>

\* the list of Test objects, and the dict of the sorted groups
Tests ==
    /\ tests_pc = "read"
    /\ all_tests' = [j \in 1..Len(dataframe) |-> Test(dataframe[j])]
    /\ tests_result' = GroupedTests(GroupBy([j \in 1..Len(dataframe) |-> Test(dataframe[j])]))
    /\ tests_pc' = "returned"
    /\ UNCHANGED dataframe
    /\ UNCHANGED <<extractor_vars, series_vars, tools_vars, ct_vars, webdav_vars, prepare_vars>>

InitTests == InitSeries

NextTests == ReadCsv \/ Tests

SpecTests == InitTests /\ [][NextTests]_vars

TestsTypeOK ==
    /\ tests_pc \in {"idle", "read", "returned"}
    /\ Len(dataframe) <= MaxRows
    /\ Len(tests_result) <= Len(dataframe)

\* ---------------------------------------------------------------- C27
\* the value of the dict for the key
TestsGet(d, key) == d[CHOOSE j \in 1..Len(d) : d[j].key = key].value

\* the number of positions of the list that hold the element
Occurrences(list, x) == Cardinality({j \in 1..Len(list) : list[j] = x})

\* C27: for every subject id that occurs in the test table, tests() returns under that id the
\* list of all tests of the subject (every test as many times as the table has it), sorted by
\* date ascending; for every order of the rows, also when the rows of a subject are not
\* contiguous.
C27_AllTestsOfSubject ==
    tests_pc = "returned" =>
        \A j \in 1..Len(all_tests) :
            LET subject == all_tests[j].subject_id
            IN  /\ \E k \in 1..Len(tests_result) : tests_result[k].key = subject
                /\ \E list \in {TestsGet(tests_result, subject)} :
                    /\ Occurrences(list, all_tests[j])
                         = Cardinality({k \in 1..Len(all_tests) : all_tests[k] = all_tests[j]})
                    /\ \A k \in 1..Len(list) : list[k].subject_id = subject
                    /\ \A k \in 1..(Len(list) - 1) : ~DateLess(list[k + 1].date, list[k].date)

\* ================================================================ webdav_download_file
\* the contents a file can have; "part" is what an interrupted download leaves
FileBytes == {"a", "b", "part"}

\* get_sha1: the digest of each content
get_sha1 ==
    [c \in FileBytes |->
        CASE c = "a" -> "86f7e437"
          [] c = "b" -> "e9d71f5e"
          [] c = "part" -> "7c4a8d09"]

\* a faulty variant of the handler: the backup is not put back over a partial download
RestoreUnlessPartial(l, b) ==
    IF l # "absent" THEN [local_file |-> l, backup_file |-> b]
    ELSE [local_file |-> b, backup_file |-> "absent"]

\* `if local_path.exists(): local_path.unlink()` and `backup_path.replace(local_path)`
Restore(l, b) == [local_file |-> b, backup_file |-> "absent"]

\* webdav_download_file up to the try block
WebdavDownloadFile ==
    /\ wd_pc = "idle"
    /\ \E l \in {"absent", "a", "b"}, b \in {"absent", "a", "b"},
          h \in {"None", get_sha1["a"], get_sha1["b"]} :
        /\ wd_entry' = [local_file |-> l, backup_file |-> b]
        /\ sha1sum' = h
        /\ exists' = (l # "absent")
        /\ IF l # "absent" /\ (h = "None" \/ get_sha1[l] = h)
           THEN /\ wd_pc' = "returned"
                /\ wd_result' = "True"
                /\ local_file' = l
                /\ backup_file' = b
           ELSE /\ wd_pc' = "download"
                /\ wd_result' = "none"
                \* local_path.replace(backup_path)
                /\ local_file' = "absent"
                /\ backup_file' = IF l # "absent" THEN l ELSE b
    /\ UNCHANGED wd_exc
    /\ UNCHANGED <<extractor_vars, series_vars, tools_vars, ct_vars, tests_vars, prepare_vars>>

\* client.download_sync: it writes the remote file, or raises after it wrote nothing or a part
DownloadSync ==
    /\ wd_pc = "download"
    /\ \/ /\ \E remote \in {"a", "b"} : local_file' = remote
          /\ wd_pc' = "after"
          /\ UNCHANGED wd_exc
       \/ /\ \E type \in {"WebDavException", "OSError"}, left \in {local_file, "part"} :
                /\ local_file' = left
                /\ wd_exc' = Raise(type, "download_sync")
                /\ wd_pc' = IF type = "WebDavException" THEN "except" ELSE "raised"
    /\ UNCHANGED <<backup_file, sha1sum, exists, wd_entry, wd_result>>
    /\ UNCHANGED <<extractor_vars, series_vars, tools_vars, ct_vars, tests_vars, prepare_vars>>

\* except WebDavException as exc: ...; raise exc
ExceptWebDav ==
    /\ wd_pc = "except"
    /\ IF exists
       THEN /\ local_file' = Restore(local_file, backup_file).local_file
            /\ backup_file' = Restore(local_file, backup_file).backup_file
       ELSE UNCHANGED <<local_file, backup_file>>
    /\ wd_pc' = "raised"
    /\ UNCHANGED <<sha1sum, exists, wd_entry, wd_result, wd_exc>>
    /\ UNCHANGED <<extractor_vars, series_vars, tools_vars, ct_vars, tests_vars, prepare_vars>>

\* after the try block: the backup is removed and the checksum compared
AfterDownload ==
    /\ wd_pc = "after"
    /\ backup_file' = "absent"
    /\ wd_result' = IF sha1sum = "None" \/ get_sha1[local_file] = sha1sum THEN "True" ELSE "False"
    /\ wd_pc' = "returned"
    /\ UNCHANGED <<local_file, sha1sum, exists, wd_entry, wd_exc>>
    /\ UNCHANGED <<extractor_vars, series_vars, tools_vars, ct_vars, tests_vars, prepare_vars>>

InitWebdav == InitSeries

NextWebdav == WebdavDownloadFile \/ DownloadSync \/ ExceptWebDav \/ AfterDownload

SpecWebdav == InitWebdav /\ [][NextWebdav]_vars

WebdavTypeOK ==
    /\ wd_pc \in {"idle", "download", "except", "after", "returned", "raised"}
    /\ local_file \in FileBytes \cup {"absent"}
    /\ backup_file \in FileBytes \cup {"absent"}
    /\ wd_result \in {"none", "True", "False"}

\* ---------------------------------------------------------------- C29
\* C29: when the local file exists with a checksum different from the expected one and the
\* download raises WebDavException, the call does not return a value: the exception reaches
\* the caller, and the local file then has its content of before the call (a partially
\* downloaded file is gone) and there is no .old backup file.
C29_FailedDownloadRestores ==
    (exists /\ wd_exc.type = "WebDavException") =>
        /\ wd_pc \in {"except", "raised"}
        /\ wd_result = "none"
        /\ wd_pc = "raised" =>
            /\ local_file = wd_entry.local_file
            /\ backup_file = "absent"

\* the exception left the call, the local file had content "a" and the expected checksum was
\* that of "b"
C29_Witness ==
    /\ wd_pc = "raised"
    /\ wd_exc.type = "WebDavException"
    /\ exists
    /\ wd_entry.local_file = "a"
    /\ sha1sum = get_sha1["b"]
    /\ local_file = "a"

\* ================================================================ prepare
MaxSeries == 2

\* subjects(): the participants table
PrepSubjects == {"sub-S01", "sub-S02"}

\* sessions(): the rows of the session tables, in the order of the archive; every subject has
\* a session (the assertion of prepare), and a session id can occur under two subjects
SessionTables ==
    { << [uid |-> "ses-E01", subject_id |-> "sub-S01"], [uid |-> "ses-E02", subject_id |-> "sub-S02"] >>,
      << [uid |-> "ses-E01", subject_id |-> "sub-S01"], [uid |-> "ses-E02", subject_id |-> "sub-S01"],
         [uid |-> "ses-E03", subject_id |-> "sub-S02"] >>,
      << [uid |-> "ses-E01", subject_id |-> "sub-S01"], [uid |-> "ses-E01", subject_id |-> "sub-S02"] >> }

\* a Series: its uid is made of the subject id, the session id and the modality
PrepSeries ==
    { [uid |-> <<sub, "_", ses, "_", "cr">>, subject_id |-> sub, session_id |-> ses, image |-> img]
        : sub \in PrepSubjects, ses \in {"ses-E01", "ses-E02", "ses-E03"}, img \in {"array", "None"} }

SeriesStreams == UNION {[1..n -> PrepSeries] : n \in 0..MaxSeries}

\* {ses.uid: ses for ses in sessions}: the last row of a uid stays
SessionsMap(table) ==
    [u \in {table[j].uid : j \in 1..Len(table)} |->
        LET last == CHOOSE j \in 1..Len(table) :
                        table[j].uid = u /\ \A k \in (j + 1)..Len(table) : table[k].uid # u
        IN  [subject_id |-> table[last].subject_id, series_ids |-> {}]]

\* a faulty variant of the test of series_ids: nothing is skipped
HasSeriesAlways(ids) == TRUE

\* `if not session.series_ids: continue`, `if not subject.series_ids: continue`
HasSeries(ids) == ids # {}

\* the keys of a dict in the order of its loop
Keys(d) == SetToSeq(DOMAIN d)

\* prepare up to the loop over the series
Prepare ==
    /\ prep_pc = "idle"
    /\ \E table \in SessionTables, stream \in SeriesStreams :
        /\ sessions_map' = SessionsMap(table)
        /\ series_stream' = stream
    /\ subjects_map' = [u \in PrepSubjects |-> [series_ids |-> {}, sessions_ids |-> {}]]
    /\ prep_index' = 1
    /\ prep_pc' = "series"
    /\ UNCHANGED <<prepared_series, prepared_sessions, prepared_subjects, prep_exc>>
    /\ UNCHANGED <<extractor_vars, series_vars, tools_vars, ct_vars, tests_vars, webdav_vars>>

\* one iteration of `for series in series_iterator`
SaveSeries ==
    /\ prep_pc = "series"
    /\ prep_index <= Len(series_stream)
    /\ LET s == series_stream[prep_index]
       IN  IF s.image = "None"
           THEN /\ prep_index' = prep_index + 1
                /\ UNCHANGED <<prep_pc, prep_exc, prepared_series, sessions_map, subjects_map>>
           ELSE /\ prepared_series' = prepared_series \cup {s.uid}
                /\ IF s.session_id \notin DOMAIN sessions_map
                   THEN /\ prep_pc' = "raised"
                        /\ prep_exc' = Raise("KeyError", "sessions_map")
                        /\ UNCHANGED <<prep_index, sessions_map, subjects_map>>
                   ELSE /\ sessions_map' =
                              [sessions_map EXCEPT ![s.session_id].series_ids = @ \cup {s.uid}]
                        /\ subjects_map' =
                              [subjects_map EXCEPT ![s.subject_id].series_ids = @ \cup {s.uid}]
                        /\ prep_index' = prep_index + 1
                        /\ UNCHANGED <<prep_pc, prep_exc>>
    /\ UNCHANGED <<series_stream, prepared_sessions, prepared_subjects>>
    /\ UNCHANGED <<extractor_vars, series_vars, tools_vars, ct_vars, tests_vars, webdav_vars>>

\* the series iterator is exhausted
SeriesDone ==
    /\ prep_pc = "series"
    /\ prep_index > Len(series_stream)
    /\ prep_pc' = "sessions"
    /\ prep_index' = 1
    /\ UNCHANGED <<subjects_map, sessions_map, series_stream, prepared_series, prepared_sessions,
                   prepared_subjects, prep_exc>>
    /\ UNCHANGED <<extractor_vars, series_vars, tools_vars, ct_vars, tests_vars, webdav_vars>>

\* one iteration of `for i, session in enumerate(sessions_map.values())`
SaveSession ==
    /\ prep_pc = "sessions"
    /\ prep_index <= Len(Keys(sessions_map))
    /\ LET uid == Keys(sessions_map)[prep_index]
           session == sessions_map[uid]
       IN  IF ~HasSeries(session.series_ids)
           THEN UNCHANGED <<prepared_sessions, subjects_map>>
           ELSE /\ prepared_sessions' =
                      {saved \in prepared_sessions : saved.uid # uid}
                      \cup {[uid |-> uid, subject_id |-> session.subject_id,
                             series_ids |-> session.series_ids]}
                /\ subjects_map' =
                      [subjects_map EXCEPT ![session.subject_id].sessions_ids = @ \cup {uid}]
    /\ prep_index' = prep_index + 1
    /\ UNCHANGED <<prep_pc, sessions_map, series_stream, prepared_series, prepared_subjects, prep_exc>>
    /\ UNCHANGED <<extractor_vars, series_vars, tools_vars, ct_vars, tests_vars, webdav_vars>>

\* the loop over the sessions is exhausted
SessionsDone ==
    /\ prep_pc = "sessions"
    /\ prep_index > Len(Keys(sessions_map))
    /\ prep_pc' = "subjects"
    /\ prep_index' = 1
    /\ UNCHANGED <<subjects_map, sessions_map, series_stream, prepared_series, prepared_sessions,
                   prepared_subjects, prep_exc>>
    /\ UNCHANGED <<extractor_vars, series_vars, tools_vars, ct_vars, tests_vars, webdav_vars>>

\* one iteration of `for i, subject in enumerate(subjects_map.values())`
SaveSubject ==
    /\ prep_pc = "subjects"
    /\ prep_index <= Len(Keys(subjects_map))
    /\ LET uid == Keys(subjects_map)[prep_index]
           subject == subjects_map[uid]
       IN  IF ~HasSeries(subject.series_ids)
           THEN UNCHANGED prepared_subjects
           ELSE prepared_subjects' =
                    {saved \in prepared_subjects : saved.uid # uid}
                    \cup {[uid |-> uid, sessions_ids |-> subject.sessions_ids,
                           series_ids |-> subject.series_ids]}
    /\ prep_index' = prep_index + 1
    /\ UNCHANGED <<prep_pc, subjects_map, sessions_map, series_stream, prepared_series,
                   prepared_sessions, prep_exc>>
    /\ UNCHANGED <<extractor_vars, series_vars, tools_vars, ct_vars, tests_vars, webdav_vars>>

\* the loop over the subjects is exhausted: prepare returns
PrepareDone ==
    /\ prep_pc = "subjects"
    /\ prep_index > Len(Keys(subjects_map))
    /\ prep_pc' = "done"
    /\ UNCHANGED <<subjects_map, sessions_map, series_stream, prep_index, prepared_series,
                   prepared_sessions, prepared_subjects, prep_exc>>
    /\ UNCHANGED <<extractor_vars, series_vars, tools_vars, ct_vars, tests_vars, webdav_vars>>

InitPrepare == InitSeries

NextPrepare ==
    Prepare \/ SaveSeries \/ SeriesDone \/ SaveSession \/ SessionsDone \/ SaveSubject \/ PrepareDone

SpecPrepare == InitPrepare /\ [][NextPrepare]_vars

PrepareTypeOK ==
    /\ prep_pc \in {"idle", "series", "sessions", "subjects", "done", "raised"}
    /\ Len(series_stream) <= MaxSeries
    /\ prep_index \in 0..(Len(series_stream) + Cardinality(DOMAIN sessions_map) + 3)

\* ---------------------------------------------------------------- C30
\* the Series of the stream that were saved: those with an image
SavedSeries == {s \in Range(series_stream) : s.image # "None"}

\* the subject id and the session id of every series occur in the tables
IdsInTables ==
    \A s \in Range(series_stream) :
        s.subject_id \in DOMAIN subjects_map /\ s.session_id \in DOMAIN sessions_map

\* C30: after prepare completes, when the subject id and the session id of every series occur
\* in the tables: a session directory is written iff a series with an image was saved for that
\* session; a subject directory is written iff one of the subject's series was saved; the
\* series_ids of each saved session are exactly the uids of the saved series of that session;
\* and every session in the sessions_ids of a saved subject is itself saved.
C30_PreparedIndex ==
    (prep_pc = "done" /\ IdsInTables) =>
        /\ prepared_series = {s.uid : s \in SavedSeries}
        /\ \A e \in DOMAIN sessions_map :
              (\E saved \in prepared_sessions : saved.uid = e)
                <=> (\E s \in SavedSeries : s.session_id = e)
        /\ \A u \in DOMAIN subjects_map :
              (\E saved \in prepared_subjects : saved.uid = u)
                <=> (\E s \in SavedSeries : s.subject_id = u)
        /\ \A saved \in prepared_sessions :
              saved.series_ids = {s.uid : s \in {x \in SavedSeries : x.session_id = saved.uid}}
        /\ \A saved \in prepared_subjects :
              \A e \in saved.sessions_ids : \E session \in prepared_sessions : session.uid = e

\* prepare completed with a session of two saved series, a session without a saved series, and
\* a saved subject that lists a session
C30_Witness ==
    /\ prep_pc = "done"
    /\ IdsInTables
    /\ \E saved \in prepared_sessions : Cardinality(saved.series_ids) = 2
    /\ \E e \in DOMAIN sessions_map : \A saved \in prepared_sessions : saved.uid # e
    /\ \E saved \in prepared_subjects : saved.sessions_ids # {}

====
